---- MODULE Spec2Model ----
(***************************************************************************)
(* Model of the Torch -> TOSA legalization patterns of                     *)
(* lib/Conversion/TorchToTosa/TorchToTosa.cpp.                             *)
(*                                                                         *)
(* A legalizer is a pure function of its source node (operand types,       *)
(* constant or non-constant attribute operands, declared result type).     *)
(* It is modelled as an operator returning the record                      *)
(*   [ret, reason, created, repl, info]                                    *)
(* where created is the sequence of target operations the rewriter has     *)
(* emitted when the function returns, repl the types of the values the     *)
(* source node is replaced by.  Each specification draws a source node     *)
(* in Init and applies the legalizer in one action.                        *)
(***************************************************************************)
EXTENDS Integers, Sequences, FiniteSets, TLC

VARIABLES pc,       \* "ready" | "done"                (position of the call)
          node,     \* the source node being legalized
          res       \* what matchAndRewrite returned ("none" before the call)

vars == <<pc, node, res>>

(***************************************************************************)
(* Shapes.  Torch shapes mark an unknown size by kUnknownSize, builtin     *)
(* tensor types by ShapedType::kDynamic.  kDynamic is INT64_MIN in the     *)
(* program; the model keeps only that it is a negative number different    *)
(* from kUnknownSize (it never takes part in arithmetic).                  *)
(***************************************************************************)
kUnknownSize == -1
kDynamic == -1000000

Ones(n) == [i \in 1..n |-> 1]

RECURSIVE Prod(_)
Prod(s) == IF s = <<>> THEN 1 ELSE Head(s) * Prod(Tail(s))

Max(a, b) == IF a > b THEN a ELSE b

makeShapeTorchCompatible(shape) ==
  [i \in 1..Len(shape) |-> IF shape[i] = kDynamic THEN kUnknownSize ELSE shape[i]]

makeShapeLLVMCompatible(shape) ==
  [i \in 1..Len(shape) |-> IF shape[i] = kUnknownSize THEN kDynamic ELSE shape[i]]

isDynamic(d) == d = kDynamic

hasStaticShape(shape) == \A i \in 1..Len(shape) : ~isDynamic(shape[i])

\* RankedTensorType::get(shape, elem)
TensorTy(shape, elem) == [shape |-> shape, elem |-> elem]

\* One emitted target operation: its name, result type and integer attribute
\* (new_shape of a reshape, the permutation of a transpose, the axis of a
\* reduction; <<>> when it has none).
Emit(name, ty, attr) == [op |-> name, ty |-> ty, attr |-> attr]

Success(created, repl, info) ==
  [ret |-> "success", reason |-> "", created |-> created, repl |-> repl,
   info |-> info]

Failure(reason, created) ==
  [ret |-> "failure", reason |-> reason, created |-> created, repl |-> <<>>,
   info |-> <<>>]

CountOps(created, name) ==
  Cardinality({i \in 1..Len(created) : created[i].op = name})

(***************************************************************************)
(* ConvertAtenMatmulBaseOp::performMatmul                                  *)
(***************************************************************************)
getRankBroadcastedShape(tensorShape, maxInputRank, isRHS) ==
  LET tensorRank == Len(tensorShape)
      bcastDims == maxInputRank - tensorRank
  IN  IF isRHS /\ tensorRank = 1 /\ bcastDims # 0
      THEN Ones(bcastDims - 1) \o <<tensorShape[1]>> \o <<1>>
      ELSE Ones(bcastDims) \o tensorShape

\* The value handed on and the operations emitted for it.
reshapeUpTo3DTensor(ty) ==
  LET rank == Len(ty.shape)
      shape == makeShapeTorchCompatible(ty.shape)
      newShape == IF rank = 2 THEN <<1, shape[1], shape[2]>>
                  ELSE <<1, 1, shape[1]>>
      newType == TensorTy(makeShapeLLVMCompatible(newShape), ty.elem)
  IN  IF rank = 3 THEN [val |-> ty, ops |-> <<>>]
      ELSE [val |-> newType, ops |-> <<Emit("tosa.reshape", newType, newShape)>>]

\* A variant that broadcasts whenever there is a batch dimension
needsBatchDimBroadcast_AnyBatch(maxInputRank, lhsBroadcastedShape, rhsBroadcastedShape) ==
  maxInputRank >= 3

\* A variant that looks at the rank only
needsBatchDimBroadcast_RankOnly(maxInputRank, lhsBroadcastedShape, rhsBroadcastedShape) ==
  maxInputRank > 3

needsBatchDimBroadcast(maxInputRank, lhsBroadcastedShape, rhsBroadcastedShape) ==
  IF maxInputRank < 3 THEN FALSE
  ELSE IF maxInputRank = 3 /\ lhsBroadcastedShape[1] = rhsBroadcastedShape[1]
       THEN FALSE
       ELSE TRUE

\* A variant that never asks for a transpose.
isTransposeRequired_Never(transposedDims) == FALSE

isTransposeRequired(transposedDims) ==
  \E i \in 2..Len(transposedDims) : transposedDims[i - 1] > transposedDims[i]

\* TensorShape_t {dim, shape}; dim is the 0-based dimension number.
TensorShape_t(d, s) == [dim |-> d, shape |-> s]

ElemDims(elems) == [i \in 1..Len(elems) |-> elems[i].dim]
ElemShapes(elems) == [i \in 1..Len(elems) |-> elems[i].shape]

\* 0-based numbers of the batch dimensions: 0 .. maxInputRank - 3
BatchDimNums(maxInputRank) == [i \in 1..(maxInputRank - 2) |-> i - 1]

commonElemsOf(lhsB, rhsB, maxInputRank) ==
  LET keep(d) == isDynamic(lhsB[d + 1]) \/ lhsB[d + 1] = rhsB[d + 1]
      dims == SelectSeq(BatchDimNums(maxInputRank), keep)
  IN  [i \in 1..Len(dims) |-> TensorShape_t(dims[i], lhsB[dims[i] + 1])]

\* All batch dims of own that differ from other and are not dynamic,
\* followed by the operand's own matrix dim (LHS[-2] resp. RHS[-1]).
squeezedElemsOf(own, other, maxInputRank, lastDim) ==
  LET keep(d) == ~isDynamic(own[d + 1]) /\ own[d + 1] # other[d + 1]
      dims == SelectSeq(BatchDimNums(maxInputRank), keep)
  IN  [i \in 1..Len(dims) |-> TensorShape_t(dims[i], own[dims[i] + 1])]
      \o <<TensorShape_t(lastDim, own[lastDim + 1])>>

hasDynamicDimsOf(shape, maxInputRank) ==
  \E d \in 0..(maxInputRank - 3) : isDynamic(shape[d + 1])

\* All but the last element of a list, those of shape 1 dropped
\* (computeOpShape: "Only dims that don't broadcast").
NonBroadcastElems(elems) ==
  LET keep(e) == e.shape # 1
  IN  SelectSeq(SubSeq(elems, 1, Len(elems) - 1), keep)

\* A variant that never takes a batch dim from the right operand.
outBatchDim_NoRhs(lhsDynamic, l, r) ==
  IF lhsDynamic THEN kUnknownSize ELSE l

\* One batch dim of the final transposed output shape.
outBatchDim(lhsDynamic, l, r) ==
  IF lhsDynamic THEN kUnknownSize
  ELSE IF l = r THEN l
  ELSE IF l = 1 THEN r ELSE l

computeOpShape(lhsShape, rhsShape, lhsBTy, lhsB, rhsB, maxInputRank, commonElems, lhsSqueezedElems, rhsSqueezedElems) ==
  LET lhsRank == Len(lhsShape)
      rhsRank == Len(rhsShape)
      lhsKeep == NonBroadcastElems(lhsSqueezedElems)
      rhsKeep == NonBroadcastElems(rhsSqueezedElems)
      batchShape(i) == outBatchDim(isDynamic(lhsBTy[i]), lhsB[i], rhsB[i])
  IN  IF maxInputRank = 2
      THEN [reshapedOpShape |->
              (IF lhsRank = 2 THEN <<lhsShape[1]>> ELSE <<>>)
              \o (IF rhsRank = 2 THEN <<rhsShape[2]>> ELSE <<>>),
            transposedOpDims |-> <<>>,
            transposedOpShapes |-> <<>>]
      ELSE [reshapedOpShape |->
              ElemShapes(commonElems) \o ElemShapes(lhsKeep)
              \o (IF lhsRank > 1 THEN <<lhsB[maxInputRank - 1]>> ELSE <<>>)
              \o ElemShapes(rhsKeep)
              \o (IF rhsRank > 1 THEN <<rhsB[maxInputRank]>> ELSE <<>>),
            transposedOpDims |->
              ElemDims(commonElems) \o ElemDims(lhsKeep)
              \o (IF lhsRank > 1 THEN <<maxInputRank - 2>> ELSE <<>>)
              \o ElemDims(rhsKeep)
              \o (IF rhsRank > 1 THEN <<maxInputRank - 1>> ELSE <<>>),
            transposedOpShapes |->
              [i \in 1..(maxInputRank - 2) |-> batchShape(i)]
              \o (IF lhsRank > 1 THEN <<lhsB[maxInputRank - 1]>> ELSE <<>>)
              \o (IF rhsRank > 1 THEN <<rhsB[maxInputRank]>> ELSE <<>>)]

\* A transpose and the constant holding its permutation.
EmitTranspose(ty, perms) ==
  <<Emit("tosa.const", TensorTy(<<Len(perms)>>, "i32"), perms),
    Emit("tosa.transpose", ty, perms)>>

NormNeg(v) == IF v < 0 THEN kUnknownSize ELSE v

performMatmul(lhsTy, rhsTy) ==
  LET lhsRank == Len(lhsTy.shape)
      rhsRank == Len(rhsTy.shape)
      lhsShape == makeShapeTorchCompatible(lhsTy.shape)
      rhsShape == makeShapeTorchCompatible(rhsTy.shape)
      maxRank0 == Max(lhsRank, rhsRank)
      maxInputRank == IF maxRank0 = 1 THEN 2 ELSE maxRank0
      lhsB == getRankBroadcastedShape(lhsShape, maxInputRank, FALSE)
      rhsB == getRankBroadcastedShape(rhsShape, maxInputRank, TRUE)
      lhsBTy == TensorTy(makeShapeLLVMCompatible(lhsB), lhsTy.elem)
      rhsBTy == TensorTy(makeShapeLLVMCompatible(rhsB), rhsTy.elem)
      bcastLhsOps == IF lhsRank = maxInputRank THEN <<>>
                     ELSE <<Emit("tosa.reshape", lhsBTy, lhsB)>>
      bcastRhsOps == IF rhsRank = maxInputRank THEN <<>>
                     ELSE <<Emit("tosa.reshape", rhsBTy, rhsB)>>
      rankBroadcastedLhs == IF lhsRank = maxInputRank THEN lhsTy ELSE lhsBTy
      rankBroadcastedRhs == IF rhsRank = maxInputRank THEN rhsTy ELSE rhsBTy
      performBatchDimBroadcast == needsBatchDimBroadcast(maxInputRank, lhsB, rhsB)
      \* ---- batch-broadcast path ----
      commonElems == commonElemsOf(lhsB, rhsB, maxInputRank)
      lhsHasDynamicDims == hasDynamicDimsOf(lhsB, maxInputRank)
      commonValue == IF lhsHasDynamicDims THEN kUnknownSize
                     ELSE NormNeg(Prod(ElemShapes(commonElems)))
      lhsSqueezedElems == squeezedElemsOf(lhsB, rhsB, maxInputRank, maxInputRank - 2)
      lhsSqueezedValue == NormNeg(Prod(ElemShapes(lhsSqueezedElems)))
      transposedLhsDims == ElemDims(commonElems) \o ElemDims(lhsSqueezedElems)
                           \o <<maxInputRank - 1>>
      transposedLhsShape == ElemShapes(commonElems) \o ElemShapes(lhsSqueezedElems)
                            \o <<lhsB[maxInputRank]>>
      lhsNeedsTranspose == isTransposeRequired(transposedLhsDims)
      transposedLhsType == TensorTy(makeShapeLLVMCompatible(transposedLhsShape),
                                    rhsTy.elem)
      newLhsShape == <<commonValue,
                       IF lhsHasDynamicDims THEN kUnknownSize ELSE lhsSqueezedValue,
                       lhsB[maxInputRank]>>
      newLhsType == TensorTy(makeShapeLLVMCompatible(newLhsShape), lhsTy.elem)
      rhsSqueezedElems == squeezedElemsOf(rhsB, lhsB, maxInputRank, maxInputRank - 1)
      rhsHasDynamicDims == hasDynamicDimsOf(rhsB, maxInputRank)
      transposedRhsDims == ElemDims(commonElems) \o <<maxInputRank - 2>>
                           \o ElemDims(rhsSqueezedElems)
      transposedRhsShape == ElemShapes(commonElems) \o <<rhsB[maxInputRank - 1]>>
                            \o ElemShapes(rhsSqueezedElems)
      transposedRhsType == TensorTy(makeShapeLLVMCompatible(transposedRhsShape),
                                    rhsTy.elem)
      rhsSqueezedValue == IF rhsHasDynamicDims THEN kUnknownSize
                          ELSE Prod(ElemShapes(rhsSqueezedElems))
      newRhsShape == <<NormNeg(commonValue), rhsB[maxInputRank - 1], rhsSqueezedValue>>
      newRhsType == TensorTy(makeShapeLLVMCompatible(newRhsShape), rhsTy.elem)
      rhsNeedsTranspose == isTransposeRequired(transposedRhsDims)
      bcastOps ==
        (IF lhsNeedsTranspose
         THEN EmitTranspose(transposedLhsType, transposedLhsDims) ELSE <<>>)
        \o <<Emit("tosa.reshape", newLhsType, newLhsShape)>>
        \o (IF rhsNeedsTranspose
            THEN EmitTranspose(transposedRhsType, transposedRhsDims) ELSE <<>>)
        \o <<Emit("tosa.reshape", newRhsType, newRhsShape)>>
      \* ---- no batch broadcast ----
      simpleLhs == reshapeUpTo3DTensor(rankBroadcastedLhs)
      simpleRhs == reshapeUpTo3DTensor(rankBroadcastedRhs)
      matmulLhs == IF performBatchDimBroadcast THEN newLhsType ELSE simpleLhs.val
      matmulRhs == IF performBatchDimBroadcast THEN newRhsType ELSE simpleRhs.val
      inputOps == IF performBatchDimBroadcast THEN bcastOps
                  ELSE simpleLhs.ops \o simpleRhs.ops
      matmulLhsShape == makeShapeTorchCompatible(matmulLhs.shape)
      matmulRhsShape == makeShapeTorchCompatible(matmulRhs.shape)
      matmulOutputShape == <<matmulLhsShape[1], matmulLhsShape[2], matmulRhsShape[3]>>
      outputElemTy == IF lhsTy.elem = "f32" THEN lhsTy.elem ELSE "i32"
      mmOutputTy == TensorTy(makeShapeLLVMCompatible(matmulOutputShape), outputElemTy)
      performOpReshape == ~(maxInputRank = 3 /\ ~performBatchDimBroadcast)
      opShape == computeOpShape(lhsShape, rhsShape, lhsBTy.shape, lhsB, rhsB,
                                maxInputRank, commonElems, lhsSqueezedElems,
                                rhsSqueezedElems)
      opNeedsTranspose == isTransposeRequired(opShape.transposedOpDims)
      reshapedOpType == TensorTy(makeShapeLLVMCompatible(opShape.reshapedOpShape),
                                 outputElemTy)
      transposedOpType == TensorTy(makeShapeLLVMCompatible(opShape.transposedOpShapes),
                                   outputElemTy)
      outputOps ==
        IF ~performOpReshape THEN <<>>
        ELSE <<Emit("tosa.reshape", reshapedOpType, opShape.reshapedOpShape)>>
             \o (IF opNeedsTranspose
                 THEN EmitTranspose(transposedOpType, opShape.transposedOpDims)
                 ELSE <<>>)
      output == IF ~performOpReshape THEN mmOutputTy
                ELSE IF opNeedsTranspose THEN transposedOpType ELSE reshapedOpType
  IN  IF lhsTy.elem # rhsTy.elem
      THEN [ret |-> "failure", reason |-> "Matmul: input datatypes mismatched",
            created |-> <<>>]
      ELSE [ret |-> "success", reason |-> "",
            created |-> bcastLhsOps \o bcastRhsOps \o inputOps
                        \o <<Emit("tosa.matmul", mmOutputTy, <<>>)>> \o outputOps,
            output |-> output,
            performBatchDimBroadcast |-> performBatchDimBroadcast,
            performOpReshape |-> performOpReshape,
            matmulLhsShape |-> matmulLhsShape,
            matmulRhsShape |-> matmulRhsShape,
            newLhsShape |-> newLhsShape,
            newRhsShape |-> newRhsShape,
            transposedLhsDims |-> transposedLhsDims,
            transposedRhsDims |-> transposedRhsDims,
            opShape |-> opShape,
            lhsBroadcastedShape |-> lhsB,
            rhsBroadcastedShape |-> rhsB,
            transposedLhsShape |-> transposedLhsShape,
            transposedRhsShape |-> transposedRhsShape,
            lhsNeedsTranspose |-> performBatchDimBroadcast /\ lhsNeedsTranspose,
            rhsNeedsTranspose |-> performBatchDimBroadcast /\ rhsNeedsTranspose,
            opNeedsTranspose |-> performOpReshape /\ opNeedsTranspose,
            commonElems |-> commonElems,
            lhsSqueezedElems |-> lhsSqueezedElems,
            rhsSqueezedElems |-> rhsSqueezedElems]


(***************************************************************************)
(* ConvertAtenMatmulBaseOp::matchAndRewrite with ConvertAtenMatMulOp's     *)
(* readMatMulInputs (both operands ranked tensors: always succeeds here).  *)
(***************************************************************************)
ConvertAtenMatMulOp(n) ==
  LET m == performMatmul(n.lhs, n.rhs)
  IN  IF m.ret = "failure"
      THEN Failure("Failed to perform matmul operation", m.created)
      ELSE Success(m.created \o <<Emit("tensor.cast", n.outTy, <<>>)>>,
                   <<n.outTy>>, m)

(***************************************************************************)
(* The matmul nodes the model legalizes.                                   *)
(***************************************************************************)
MaxRank == 4
MaxDim == 2

BatchSizes == (1..MaxDim) \cup {kDynamic}
BatchPrefixes == UNION {[1..k -> BatchSizes] : k \in 0..(MaxRank - 2)}

\* [b..., M, K] and [K]
LhsShapes ==
  {b \o <<m, k>> : b \in BatchPrefixes, m \in {3, kDynamic}, k \in {4, kDynamic}}
  \cup {<<k>> : k \in {4, kDynamic}}
\* [b..., K, N] and [K]
RhsShapes ==
  {b \o <<k, n>> : b \in BatchPrefixes, k \in {4, kDynamic}, n \in {5, kDynamic}}
  \cup {<<k>> : k \in {4, kDynamic}}

\* The shapes of the worked examples in the comments of performMatmul.
ExampleOperands ==
  { <<(<<14, 19>>), (<<19, 28>>)>>,
    <<(<<3, 1, 5, 6>>), (<<1, 4, 6, 7>>)>>,
    <<(<<4, 8, 16, 32>>), (<<8, 32, 17>>)>>,
    <<(<<4, 5, 6>>), (<<1, 6, 7>>)>>,
    <<(<<3, 4, 5, 6>>), (<<6>>)>> }

IsStaticShape(shape) == \A i \in 1..Len(shape) : shape[i] >= 0

\* aten.matmul's result shape (the type the source node declares): the
\* right-aligned broadcast of the batch dims, then M (unless the left operand
\* is a vector) and N (unless the right operand is a vector).  A dim is
\* unknown when it cannot be told from the operand types.
BroadcastDim(a, b) ==
  IF a = kDynamic \/ b = kDynamic
  THEN (IF a = kDynamic /\ b = kDynamic THEN kDynamic
        ELSE IF a = 1 \/ b = 1 THEN kDynamic
        ELSE IF a = kDynamic THEN b ELSE a)
  ELSE IF a = 1 THEN b ELSE a

BroadcastShapes(a, b) ==
  LET n == Max(Len(a), Len(b))
      pa == Ones(n - Len(a)) \o a
      pb == Ones(n - Len(b)) \o b
  IN  [i \in 1..n |-> BroadcastDim(pa[i], pb[i])]

BatchOf(shape) == IF Len(shape) > 2 THEN SubSeq(shape, 1, Len(shape) - 2) ELSE <<>>

AtenMatmulResultShape(lhs, rhs) ==
  BroadcastShapes(BatchOf(lhs), BatchOf(rhs))
  \o (IF Len(lhs) > 1 THEN <<lhs[Len(lhs) - 1]>> ELSE <<>>)
  \o (IF Len(rhs) > 1 THEN <<rhs[Len(rhs)]>> ELSE <<>>)

MatmulNode(lhs, rhs) ==
  [kind |-> "matmul",
   lhs |-> TensorTy(lhs, "f32"),
   rhs |-> TensorTy(rhs, "f32"),
   outTy |-> TensorTy(AtenMatmulResultShape(lhs, rhs), "f32")]

MatmulNodes ==
  {MatmulNode(l, r) : l \in LhsShapes, r \in RhsShapes}
  \cup {MatmulNode(e[1], e[2]) : e \in ExampleOperands}

NoRes == [ret |-> "none"]

InitMatmul == pc = "ready" /\ node \in MatmulNodes /\ res = NoRes

LegalizeMatmul ==
  /\ pc = "ready"
  /\ node.kind = "matmul"
  /\ res' = ConvertAtenMatMulOp(node)
  /\ pc' = "done"
  /\ UNCHANGED node

NextMatmul == LegalizeMatmul

SpecMatmul == InitMatmul /\ [][NextMatmul]_vars


(***************************************************************************)
(* Matmul claims.                                                          *)
(***************************************************************************)
BroadcastCompatible(a, b) ==
  LET n == Max(Len(a), Len(b))
      pa == Ones(n - Len(a)) \o a
      pb == Ones(n - Len(b)) \o b
  IN  \A i \in 1..n : pa[i] = pb[i] \/ pa[i] = 1 \/ pb[i] = 1

\* Fully static operands [a...,M,K] and [b...,K,N] of rank >= 2 whose leading
\* dims are broadcast-compatible.
StaticBroadcastMatmul(n) ==
  /\ n.kind = "matmul"
  /\ Len(n.lhs.shape) >= 2 /\ Len(n.rhs.shape) >= 2
  /\ IsStaticShape(n.lhs.shape) /\ IsStaticShape(n.rhs.shape)
  /\ n.lhs.shape[Len(n.lhs.shape)] = n.rhs.shape[Len(n.rhs.shape) - 1]
  /\ BroadcastCompatible(BatchOf(n.lhs.shape), BatchOf(n.rhs.shape))

\* C1: for fully static operands A=[a...,M,K] and B=[b...,K,N] of rank >= 2
\* with broadcast-compatible leading dims, the declared shape of the value
\* performMatmul returns is [broadcast(a,b)...,M,N].
C1_MatmulShapeLaw ==
  (pc = "done" /\ StaticBroadcastMatmul(node))
  => /\ res.ret = "success"
     /\ res.info.output.shape =
          BroadcastShapes(BatchOf(node.lhs.shape), BatchOf(node.rhs.shape))
          \o <<node.lhs.shape[Len(node.lhs.shape) - 1],
               node.rhs.shape[Len(node.rhs.shape)]>>

\* [3,1,5,6] x [1,4,6,7] has been legalized on the batch-broadcast path, with
\* a transposed output, to a value of shape [3,4,5,7].
C1_Witness ==
  /\ pc = "done"
  /\ StaticBroadcastMatmul(node)
  /\ node.lhs.shape = <<3, 1, 5, 6>>
  /\ node.rhs.shape = <<1, 4, 6, 7>>
  /\ res.info.performBatchDimBroadcast
  /\ res.info.output.shape = <<3, 4, 5, 7>>

IsScenarioC10 ==
  /\ pc = "done"
  /\ node.kind = "matmul"
  /\ node.lhs.shape = <<4, 8, 16, 32>>
  /\ node.rhs.shape = <<8, 32, 17>>

F32MantissaBits == 3
Bits32 == 4
DoubleMantissaBits == 6
Bits64 == 8

RECURSIVE Pow2(_)
Pow2(n) == IF n <= 0 THEN 1 ELSE 2 * Pow2(n - 1)

IntMin(bits) == -Pow2(bits - 1)
IntMax(bits) == Pow2(bits - 1) - 1
IntRange(bits) == IntMin(bits)..IntMax(bits)

Abs(x) == IF x < 0 THEN -x ELSE x
Sign(x) == IF x < 0 THEN -1 ELSE 1

Fin(h) == [cls |-> "fin", h |-> h]
NaN == [cls |-> "nan", h |-> 0]
PosInf == [cls |-> "inf", h |-> 1]
NegInf == [cls |-> "inf", h |-> -1]

\* The spacing of the floating-point numbers of mantissa width p around a >= 0
RECURSIVE Quantum(_, _)
Quantum(a, p) == IF a < Pow2(p) THEN 1 ELSE 2 * Quantum(a \div 2, p)

\* Round a >= 0 to the nearest number with a p-bit mantissa, ties to even.
RoundToMantissa(a, p) ==
  LET q == Quantum(a, p)
      r == a % q
      base == a - r
  IN  IF 2 * r < q THEN base
      ELSE IF 2 * r > q THEN base + q
      ELSE IF (base \div q) % 2 = 0 THEN base ELSE base + q

\* static_cast<double>(T) of an integer: exact when representable, else rounded
IntToDouble(i) == Fin(Sign(i) * RoundToMantissa(2 * Abs(i), DoubleMantissaBits))

\* double -> float
DoubleToF32(d) ==
  IF d.cls = "fin"
  THEN Fin(Sign(d.h) * RoundToMantissa(Abs(d.h), F32MantissaBits))
  ELSE d

\* IEEE ==
DoubleEq(a, b) == a.cls # "nan" /\ b.cls # "nan" /\ a = b

\* The integral part of a finite double
Trunc(d) == Sign(d.h) * (Abs(d.h) \div 2)

Wrap(v, bits) == ((v - IntMin(bits)) % Pow2(bits)) + IntMin(bits)

\* static_cast<T>(double).  The conversion truncates toward zero when the
\* truncated value fits T; otherwise the behaviour is undefined and the
\* result is what the target's conversion leaves: the "integer indefinite"
\* value (x86 cvttsd2si), the saturated value (AArch64 fcvtzs; 0 for a NaN)
\* or the low bits of a wider conversion.
StaticCastToInt(d, bits) ==
  IF d.cls = "fin" /\ Trunc(d) \in IntRange(bits)
  THEN {Trunc(d)}
  ELSE {IntMin(bits)}
       \cup (IF d.cls = "nan" THEN {0}
             ELSE IF d.h > 0 THEN {IntMax(bits)} ELSE {IntMin(bits)})
       \cup (IF d.cls = "fin" THEN {Wrap(Trunc(d), bits)} ELSE {})

\* isInValidRange<T>; castValue is static_cast<T>(doubleValue)
isInValidRange(bits, isFloat, doubleValue, intValue, castValue) ==
  IF isFloat
  THEN DoubleEq(doubleValue, IntToDouble(castValue))
  ELSE intValue >= IntMin(bits) /\ intValue <= IntMax(bits)

\* Element types: floating point, integers by width, anything else.
IsFloatType(dtype) == dtype = "f32"
IsIntegerType(dtype) == dtype \in {"i1", "i8", "i32", "i64"}
getWidth(dtype) ==
  CASE dtype = "i1" -> 1 [] dtype = "i8" -> 8 [] dtype = "i32" -> 32
    [] dtype = "i64" -> 64 [] OTHER -> 0
BitsOf(dtype) == IF dtype = "i64" THEN Bits64 ELSE Bits32

\* The scalar operand: a torch.constant.float, a torch.constant.int or any
\* other value.  castValue is what static_cast<T>(doubleValue) yields on
\* the build at hand, in the range check and for the stored value alike.
torchScalarToTosaTensor(scalar, dtype, dshape, castValue) ==
  LET isFloat == scalar.kind = "float"
      isInt == scalar.kind = "int"
      doubleValue == scalar.d
      intValue == scalar.i
      w == getWidth(dtype)
      d == IF isFloat THEN castValue ELSE intValue
  IN  IF ~isFloat /\ ~isInt
      THEN Failure("Unable to extract the scalar constant", <<>>)
      ELSE IF IsFloatType(dtype)
      THEN LET v == DoubleToF32(IF isFloat THEN doubleValue
                                ELSE IntToDouble(intValue))
           IN  Success(<<Emit("tosa.const", TensorTy(dshape, "f32"), v)>>,
                       <<TensorTy(dshape, "f32")>>, v)
      ELSE IF IsIntegerType(dtype)
      THEN IF w # 32 /\ w # 64
           THEN Failure("Unsupported integer type", <<>>)
           ELSE IF ~isInValidRange(BitsOf(dtype), isFloat, doubleValue,
                                   intValue, castValue)
           THEN Failure("Supplied value of scalar constant exceeds limits of destination type",
                        <<>>)
           ELSE Success(<<Emit("tosa.const", TensorTy(dshape, dtype), d)>>,
                        <<TensorTy(dshape, dtype)>>, d)
      ELSE Failure("Usupported element type", <<>>)


\* The constants the model lifts.
ConstantFloat(d) == [kind |-> "float", d |-> d, i |-> 0]
ConstantInt(i) == [kind |-> "int", d |-> NaN, i |-> i]
NonConstant == [kind |-> "nonconst", d |-> NaN, i |-> 0]
DoubleLimit == 5 * Pow2(Bits64 - 2)
IsDouble(h) == RoundToMantissa(Abs(h), DoubleMantissaBits) = Abs(h)
DoubleConstants ==
  {Fin(h) : h \in {x \in (-DoubleLimit)..DoubleLimit : IsDouble(x)}}
  \cup {NaN, PosInf, NegInf}

ScalarOperands ==
  {ConstantFloat(d) : d \in DoubleConstants}
  \cup {ConstantInt(i) : i \in IntRange(Bits64)}
  \cup {NonConstant}

DTypes == {"f32", "i1", "i8", "i32", "i64", "none"}

ScalarNodes ==
  {[kind |-> "scalar", scalar |-> sc, dtype |-> t] :
     sc \in ScalarOperands, t \in DTypes}

CastOutcomes(scalar, dtype) ==
  IF scalar.kind = "float" /\ dtype \in {"i32", "i64"}
  THEN StaticCastToInt(scalar.d, BitsOf(dtype))
  ELSE {0}

InitScalar == pc = "ready" /\ node \in ScalarNodes /\ res = NoRes

LiftScalar ==
  /\ pc = "ready"
  /\ node.kind = "scalar"
  /\ \E castValue \in CastOutcomes(node.scalar, node.dtype) :
       res' = torchScalarToTosaTensor(node.scalar, node.dtype, <<>>, castValue)
  /\ pc' = "done"
  /\ UNCHANGED node

NextScalar == LiftScalar

SpecScalar == InitScalar /\ [][NextScalar]_vars

\* A float constant survives the trip to a signed integer of the width and
\* back exactly when it is an integer of that range; an integer constant must
\* lie in the range.
InSignedRange(scalar, bits) ==
  IF scalar.kind = "float"
  THEN /\ scalar.d.cls = "fin"
       /\ scalar.d.h % 2 = 0
       /\ (scalar.d.h \div 2) \in IntRange(bits)
  ELSE scalar.i \in IntRange(bits)

RangeViolation == "Supplied value of scalar constant exceeds limits of destination type"

\* C5: for a constant scalar and destination width 32 or 64, lifting succeeds
\* iff the float constant round-trips through the signed integer of that
\* width (an integer constant: lies in its range), and otherwise fails with
\* the range-violation reason and creates nothing; other integer widths and
\* non-constant operands always fail.
C5_RangeRoundTrip ==
  (pc = "done" /\ node.kind = "scalar")
  => /\ node.scalar.kind = "nonconst" => res.ret = "failure"
     /\ node.dtype \in {"i1", "i8"} => res.ret = "failure"
     /\ (node.scalar.kind # "nonconst" /\ node.dtype \in {"i32", "i64"})
        => /\ res.ret = "success"
              <=> InSignedRange(node.scalar, BitsOf(node.dtype))
           /\ res.ret = "failure"
              => res.reason = RangeViolation /\ res.created = <<>>


(***************************************************************************)
(* Attribute operands and the constant matchers.                           *)
(***************************************************************************)
ConstantBool(b) == [kind |-> "bool", d |-> NaN, i |-> IF b THEN 1 ELSE 0]
NoneOperand == [kind |-> "none", d |-> NaN, i |-> 0]

m_TorchConstantInt(v) == v.kind = "int"
m_TorchConstantBool(v) == v.kind = "bool"
m_TorchConstantFloat(v) == v.kind = "float"

DimSizes == (1..MaxDim) \cup {kDynamic}
Shapes == UNION {[1..k -> DimSizes] : k \in 0..MaxRank}

RemoveAt(seq, i) == SubSeq(seq, 1, i - 1) \o SubSeq(seq, i + 1, Len(seq))

(***************************************************************************)
(* ConvertAtenSqueezeOp and its two generateSqueezedShape variants.        *)
(***************************************************************************)
\* A variant that keeps only the dims known to be larger than 1.
SqueezeAllDims_DropUnknown(selfTy) ==
  LET keep(dim) == dim > 1
  IN  [ok |-> TRUE, shape |-> SelectSeq(makeShapeTorchCompatible(selfTy.shape), keep)]

SqueezeOneDim_generateSqueezedShape(dimOperand, selfTy) ==
  LET rank == Len(selfTy.shape)
      squeezeDim == IF dimOperand.i < 0 THEN dimOperand.i + rank ELSE dimOperand.i
      selfShape == makeShapeTorchCompatible(selfTy.shape)
      \* dimNum counts from 0
      kept == {n \in 1..rank : selfShape[n] # 1 \/ squeezeDim # n - 1}
      keep(n) == n \in kept
      idx == SelectSeq([n \in 1..rank |-> n], keep)
  IN  IF ~m_TorchConstantInt(dimOperand)
      THEN [ok |-> FALSE, shape |-> <<>>]
      ELSE [ok |-> TRUE, shape |-> [j \in 1..Len(idx) |-> selfShape[idx[j]]]]

SqueezeAllDims_generateSqueezedShape(selfTy) ==
  LET keep(dim) == dim # 1
  IN  [ok |-> TRUE, shape |-> SelectSeq(makeShapeTorchCompatible(selfTy.shape), keep)]

ConvertAtenSqueezeOp(n) ==
  LET g == IF n.variant = "dim"
           THEN SqueezeOneDim_generateSqueezedShape(n.dim, n.self)
           ELSE SqueezeAllDims_generateSqueezedShape(n.self)
      newOutputTy == TensorTy(makeShapeLLVMCompatible(g.shape), n.outTy.elem)
  IN  IF ~g.ok
      THEN Failure("Squeeze could not compute new shape", <<>>)
      ELSE Success(<<Emit("tosa.reshape", newOutputTy, g.shape),
                     Emit("tensor.cast", newOutputTy, <<>>)>>,
                   <<newOutputTy>>, g.shape)

\* The result type aten.squeeze / aten.squeeze.dim declare.
AtenSqueezeResultShape(variant, shape, dimOperand) ==
  LET rank == Len(shape)
      nd == IF dimOperand.i < 0 THEN dimOperand.i + rank ELSE dimOperand.i
      keep(dim) == dim # 1
  IN  IF variant = "all" THEN SelectSeq(shape, keep)
      ELSE IF dimOperand.kind = "int" /\ nd \in 0..(rank - 1) /\ shape[nd + 1] = 1
      THEN RemoveAt(shape, nd + 1)
      ELSE shape

SqueezeNode(variant, shape, dimOperand) ==
  [kind |-> "squeeze", variant |-> variant, self |-> TensorTy(shape, "f32"),
   dim |-> dimOperand,
   outTy |-> TensorTy(AtenSqueezeResultShape(variant, shape, dimOperand), "f32")]

DimOperands ==
  {ConstantInt(i) : i \in (-(MaxRank + 1))..MaxRank} \cup {NonConstant}

SqueezeNodes ==
  {SqueezeNode("dim", sh, dm) : sh \in Shapes, dm \in DimOperands}
  \cup {SqueezeNode("all", sh, NoneOperand) : sh \in Shapes}

InitSqueeze == pc = "ready" /\ node \in SqueezeNodes /\ res = NoRes

LegalizeSqueeze ==
  /\ pc = "ready"
  /\ node.kind = "squeeze"
  /\ res' = ConvertAtenSqueezeOp(node)
  /\ pc' = "done"
  /\ UNCHANGED node

NextSqueeze == LegalizeSqueeze

SpecSqueeze == InitSqueeze /\ [][NextSqueeze]_vars

\* The positions (from 1) of the dims a squeeze may remove.
StaticOnes(shape) == {n \in 1..Len(shape) : shape[n] = 1}

\* The shape with the dims at the positions in gone removed.
Without(shape, gone) ==
  LET keep(n) == n \notin gone
      idx == SelectSeq([n \in 1..Len(shape) |-> n], keep)
  IN  [j \in 1..Len(idx) |-> shape[idx[j]]]

NormalizedDim(d, rank) == IF d < 0 THEN d + rank ELSE d

\* C6: the all-dims squeeze yields exactly the input dims that are not
\* statically 1, in order; the one-dim squeeze with constant dim d (a negative
\* d normalized by adding the rank) removes dim d iff it is statically 1 and
\* removes nothing else; an unknown dim is never removed.
C6_SqueezeConservative ==
  (pc = "done" /\ node.kind = "squeeze"
   /\ (node.variant = "dim" => node.dim.kind = "int"))
  => /\ res.ret = "success"
     /\ res.repl[1].shape =
          Without(node.self.shape,
                  IF node.variant = "all" THEN StaticOnes(node.self.shape)
                  ELSE StaticOnes(node.self.shape)
                       \cap {NormalizedDim(node.dim.i, Len(node.self.shape)) + 1})
     /\ Cardinality({n \in 1..Len(res.repl[1].shape) : res.repl[1].shape[n] = kDynamic})
          = Cardinality({n \in 1..Len(node.self.shape) : node.self.shape[n] = kDynamic})

\* squeeze.dim with dim -1 has removed the trailing static 1 of a shape that
\* also holds an unknown dim and another static 1, and has kept both.
C6_Witness ==
  /\ pc = "done"
  /\ node.kind = "squeeze"
  /\ node.variant = "dim"
  /\ node.dim = ConstantInt(-1)
  /\ node.self.shape = <<1, kDynamic, 1>>
  /\ res.ret = "success"
  /\ res.repl[1].shape = <<1, kDynamic>>


(***************************************************************************)
(* ConvertAtenOp<AtenArgmaxOp>::matchAndRewrite                            *)
(***************************************************************************)
\* One tosa.argmax on reduceDim of a value of type inputTy
buildArgmax(reduceDim, inputTy, keepDim) ==
  LET inputShape == makeShapeTorchCompatible(inputTy.shape)
      \* i counts from 0
      part(n) == IF n - 1 # reduceDim THEN <<inputShape[n]>>
                 ELSE IF keepDim THEN <<1>> ELSE <<>>
      RECURSIVE outputShapeArr(_)
      outputShapeArr(n) ==
        IF n > Len(inputShape) THEN <<>> ELSE part(n) \o outputShapeArr(n + 1)
  IN  Emit("tosa.argmax",
           TensorTy(makeShapeLLVMCompatible(outputShapeArr(1)), "i32"),
           reduceDim)

\* The loop of the all-dims case: count argmaxes, each on dim 0 of the
\* previous result.
RECURSIVE argmaxChain(_, _, _)
argmaxChain(count, inputTy, keepDim) ==
  IF count = 0 THEN <<>>
  ELSE LET first == buildArgmax(0, inputTy, keepDim)
       IN  <<first>> \o argmaxChain(count - 1, first.ty, keepDim)

\* A variant that converts with an op of the source dialect
castToInt64_Aten(resTy, outputETy) ==
  Emit("aten.to.dtype",
       TensorTy(makeShapeLLVMCompatible(makeShapeTorchCompatible(resTy.shape)),
                outputETy),
       <<>>)

castToInt64(resTy, outputETy) ==
  Emit("arith.extsi",
       TensorTy(makeShapeLLVMCompatible(makeShapeTorchCompatible(resTy.shape)),
                outputETy),
       <<>>)

ConvertAtenArgmaxOp(n) ==
  LET selfTy == n.self
      \* a dim that is not a constant int (None included) reduces all dims
      reduceDim == IF m_TorchConstantInt(n.dim) THEN n.dim.i ELSE -1
      keepDim == n.keepdim.i = 1
      outputETy == n.outTy.elem
      chain == IF reduceDim = -1
               THEN argmaxChain(Len(selfTy.shape), selfTy, keepDim)
               ELSE <<buildArgmax(reduceDim, selfTy, keepDim)>>
      lastTy == IF chain = <<>> THEN selfTy ELSE chain[Len(chain)].ty
      ext == castToInt64(lastTy, outputETy)
  IN  IF ~m_TorchConstantBool(n.keepdim)
      THEN Failure("non-const keepdim parameter unsupported", <<>>)
      ELSE Success(chain \o <<ext>>, <<ext.ty>>, reduceDim)

\* The result type aten.argmax declares (an index tensor of i64).
AtenArgmaxResultShape(shape, dimOperand, keepdim) ==
  LET rank == Len(shape)
      nd == IF dimOperand.i < 0 THEN dimOperand.i + rank ELSE dimOperand.i
      keep == keepdim.i = 1
  IN  IF dimOperand.kind = "none"
      THEN (IF keep THEN Ones(rank) ELSE <<>>)
      ELSE IF dimOperand.kind = "int"
      THEN (IF nd \in 0..(rank - 1)
            THEN (IF keep THEN [shape EXCEPT ![nd + 1] = 1]
                  ELSE RemoveAt(shape, nd + 1))
            ELSE <<>>)
      ELSE [j \in 1..(IF keep THEN rank ELSE Max(rank - 1, 0)) |-> kDynamic]

ArgmaxNode(shape, dimOperand, keepdim) ==
  [kind |-> "argmax", self |-> TensorTy(shape, "f32"), dim |-> dimOperand,
   keepdim |-> keepdim,
   outTy |-> TensorTy(AtenArgmaxResultShape(shape, dimOperand, keepdim), "i64")]

BoolOperands == {ConstantBool(TRUE), ConstantBool(FALSE), NonConstant}

ArgmaxNodes ==
  {ArgmaxNode(sh, dm, kd) :
     sh \in Shapes, dm \in DimOperands \cup {NoneOperand}, kd \in BoolOperands}

InitArgmax == pc = "ready" /\ node \in ArgmaxNodes /\ res = NoRes

LegalizeArgmax ==
  /\ pc = "ready"
  /\ node.kind = "argmax"
  /\ res' = ConvertAtenArgmaxOp(node)
  /\ pc' = "done"
  /\ UNCHANGED node

NextArgmax == LegalizeArgmax

SpecArgmax == InitArgmax /\ [][NextArgmax]_vars

\* The type the k-th emitted op reads: the operand, or the previous result
InputTyOf(created, k, selfTy) == IF k = 1 THEN selfTy ELSE created[k - 1].ty

\* Axis 0 collapsed: removed, or kept with size 1 under keepdim.
CollapseAxis0(shape, keepDim) ==
  IF keepDim THEN <<1>> \o Tail(shape) ELSE Tail(shape)

\* C8: an all-dims argmax (dim is None) of a rank-R input emits exactly R
\* chained argmax primitives, each on axis 0 of the previous result and each
\* collapsing that axis (removing it, or keeping it with size 1 under
\* keepdim), followed by one sign-extension of the i32 index result to the
\* i64 output element type, which replaces the source op; with keepdim false
\* the chained result has rank 0.
C8_ArgmaxChain ==
  (pc = "done" /\ node.kind = "argmax" /\ node.dim.kind = "none"
   /\ node.keepdim.kind = "bool")
  => LET R == Len(node.self.shape)
         ops == res.created
     IN  /\ res.ret = "success"
         /\ Len(ops) = R + 1
         /\ \A k \in 1..R :
              /\ ops[k].op = "tosa.argmax"
              /\ ops[k].attr = 0
              /\ ops[k].ty.elem = "i32"
              /\ ops[k].ty.shape =
                   CollapseAxis0(InputTyOf(ops, k, node.self).shape,
                                 node.keepdim.i = 1)
         /\ ops[R + 1].op = "arith.extsi"
         /\ ops[R + 1].ty.elem = "i64"
         /\ InputTyOf(ops, R + 1, node.self).elem = "i32"
         /\ ops[R + 1].ty.shape = InputTyOf(ops, R + 1, node.self).shape
         /\ res.repl = <<ops[R + 1].ty>>
         /\ node.keepdim.i = 0 => Len(res.repl[1].shape) = 0


(***************************************************************************)
(* torchAlphaToTosaTensor and ConvertAtenAddSubOp::matchAndRewrite.        *)
(* The operands of an emitted op are references: to an operand of the      *)
(* source op, or to the result of the idx-th op created so far.            *)
(***************************************************************************)
Operand(name) == [src |-> name, idx |-> 0]
Result(k) == [src |-> "op", idx |-> k]

\* A variant that tests an integer alpha for unity before lifting it
torchAlphaToTosaTensor_UnityFirst(alphaScalar, dtype, checkForUnity, castValue) ==
  LET lifted == torchScalarToTosaTensor(alphaScalar, dtype, <<>>, castValue)
  IN  IF checkForUnity /\ m_TorchConstantInt(alphaScalar) /\ alphaScalar.i # 1
      THEN Failure("Unsupported integer value for alpha", <<>>)
      ELSE IF lifted.ret = "success" THEN lifted
      ELSE Failure("Currently only scalar constants are supported for alpha in TOSA operation",
                   <<>>)

torchAlphaToTosaTensor(alphaScalar, dtype, checkForUnity, castValue) ==
  LET lifted == torchScalarToTosaTensor(alphaScalar, dtype, <<>>, castValue)
      alphaValue == alphaScalar.i
      v == DoubleToF32(IntToDouble(alphaValue))
  IN  IF lifted.ret = "success" THEN lifted
      ELSE IF ~m_TorchConstantInt(alphaScalar)
      THEN Failure("Currently only scalar constants are supported for alpha in TOSA operation",
                   <<>>)
      ELSE IF checkForUnity /\ alphaValue # 1
      THEN Failure("Unsupported integer value for alpha", <<>>)
      ELSE Success(<<Emit("tosa.const", TensorTy(<<>>, "f32"), v)>>,
                   <<TensorTy(<<>>, "f32")>>, v)

ConvertAtenAddSubOp(n, rhsCast, alphaCast) ==
  LET outType == n.outTy
      outElemTy == outType.elem
      rhsAlphaMulElemType == IF IsFloatType(outElemTy) THEN outElemTy ELSE "i32"
      rhsIsTensor == n.other.isTensor
      rhsLift == torchScalarToTosaTensor(n.other.scalar, rhsAlphaMulElemType,
                                         <<>>, rhsCast)
      rhsNeedsCast == rhsIsTensor /\ n.other.ty.elem # rhsAlphaMulElemType
      rhsType == TensorTy(n.other.ty.shape,
                          IF rhsNeedsCast THEN rhsAlphaMulElemType
                          ELSE n.other.ty.elem)
      rhsOps == IF ~rhsIsTensor THEN rhsLift.created
                ELSE IF rhsNeedsCast
                THEN <<Emit("tosa.cast", rhsType, <<Operand("other")>>)>>
                ELSE <<>>
      rhsTensor == IF rhsOps = <<>> THEN Operand("other") ELSE Result(Len(rhsOps))
      alpha == torchAlphaToTosaTensor(n.alpha, rhsAlphaMulElemType, FALSE, alphaCast)
      multTy == IF rhsIsTensor THEN rhsType ELSE TensorTy(<<>>, rhsAlphaMulElemType)
      multTensor == Emit("tosa.mul", multTy, <<rhsTensor, Result(Len(rhsOps) + 1)>>)
      upToMul == rhsOps \o alpha.created \o <<multTensor>>
      multRef == Result(Len(upToMul))
      lhsNeedsCast == n.self.elem # rhsAlphaMulElemType
      lhsOps == IF lhsNeedsCast
                THEN <<Emit("tosa.cast", TensorTy(n.self.shape, rhsAlphaMulElemType),
                            <<Operand("self")>>)>>
                ELSE <<>>
      lhs == IF lhsNeedsCast THEN Result(Len(upToMul) + 1) ELSE Operand("self")
      TosaOpT == IF n.op = "add" THEN "tosa.add" ELSE "tosa.sub"
      tosaOpTOutputTensor ==
        Emit(TosaOpT, TensorTy(outType.shape, rhsAlphaMulElemType), <<lhs, multRef>>)
  IN  IF ~rhsIsTensor /\ rhsLift.ret = "failure"
      THEN Failure("Currently only scalar constants are supported for conversion in TOSA operation",
                   <<>>)
      ELSE IF alpha.ret = "failure"
      THEN Failure("Currently only scalar constants are supported for alpha in conversion to TOSA operation",
                   rhsOps)
      ELSE IF IsFloatType(outElemTy) \/ outElemTy = "i32"
      THEN Success(upToMul \o lhsOps \o <<Emit(TosaOpT, outType, <<lhs, multRef>>)>>,
                   <<outType>>, <<>>)
      ELSE IF outElemTy = "i64"
      THEN Success(upToMul \o lhsOps
                   \o <<tosaOpTOutputTensor,
                        Emit("tosa.cast", outType,
                             <<Result(Len(upToMul) + Len(lhsOps) + 1)>>)>>,
                   <<outType>>, <<>>)
      ELSE Failure("Only floating-point, i32, i64 datatype legalization supported",
                   upToMul)

(***************************************************************************)
(* The value one element takes through the emitted integer ops.            *)
(* tosa.cast between integers sign-extends when widening; when narrowing   *)
(* the lowering of the target dialect either truncates or clamps first.    *)
(***************************************************************************)
CastModes == {"truncate", "saturate"}

Clamp(v, bits) ==
  IF v < IntMin(bits) THEN IntMin(bits)
  ELSE IF v > IntMax(bits) THEN IntMax(bits) ELSE v

CastInt(v, from, to, mode) ==
  IF BitsOf(to) >= BitsOf(from) THEN v
  ELSE IF mode = "truncate" THEN Wrap(v, BitsOf(to))
  ELSE Clamp(v, BitsOf(to))

RECURSIVE EvalRef(_, _, _, _)
EvalRef(created, ref, env, mode) ==
  IF ref.src # "op" THEN env[ref.src]
  ELSE LET o == created[ref.idx]
           a == EvalRef(created, o.attr[1], env, mode)
           b == EvalRef(created, o.attr[2], env, mode)
           bits == BitsOf(o.ty.elem)
       IN  CASE o.op = "tosa.const" -> [val |-> o.attr, elem |-> o.ty.elem]
             [] o.op = "tosa.cast" ->
                  [val |-> CastInt(a.val, a.elem, o.ty.elem, mode), elem |-> o.ty.elem]
             [] o.op = "tosa.mul" ->
                  [val |-> Wrap(a.val * b.val, bits), elem |-> o.ty.elem]
             [] o.op = "tosa.add" ->
                  [val |-> Wrap(a.val + b.val, bits), elem |-> o.ty.elem]
             [] o.op = "tosa.sub" ->
                  [val |-> Wrap(a.val - b.val, bits), elem |-> o.ty.elem]


\* The element type aten.add.Tensor / aten.add.Scalar declare (type promotion)
TypeRank(elem) ==
  CASE elem = "i1" -> 0 [] elem = "i8" -> 1 [] elem = "i32" -> 2
    [] elem = "i64" -> 3 [] OTHER -> 4

AtenAddResultElem(selfElem, other) ==
  IF other.isTensor
  THEN (IF TypeRank(other.ty.elem) > TypeRank(selfElem) THEN other.ty.elem
        ELSE selfElem)
  ELSE IF other.scalar.kind = "float" THEN "f32" ELSE selfElem

TensorOperand(ty) == [isTensor |-> TRUE, ty |-> ty, scalar |-> NonConstant]
ScalarOperand(sc) == [isTensor |-> FALSE, ty |-> TensorTy(<<>>, "none"), scalar |-> sc]

\* Element values at the edges of the 32-bit and of the 64-bit range
ElemSamples(elem) ==
  {IntMin(Bits64), IntMin(Bits32) - 1, IntMin(Bits32), -1, 0, 1,
   Pow2(Bits32 - 2), IntMax(Bits32), IntMax(Bits32) + 1, IntMax(Bits64)}
  \cap IntRange(BitsOf(elem))

AddSubNode(op, selfElem, other, alpha, x, y) ==
  [kind |-> "addsub", op |-> op, self |-> TensorTy(<<2>>, selfElem),
   other |-> other, alpha |-> alpha,
   outTy |-> TensorTy(<<2>>, AtenAddResultElem(selfElem, other)),
   x |-> x, y |-> y]

AddSubOthers ==
  {TensorOperand(TensorTy(<<2>>, e)) : e \in {"i8", "i32", "i64", "f32"}}
  \cup {ScalarOperand(sc) :
          sc \in {ConstantInt(3), ConstantInt(IntMax(Bits64)),
                  ConstantFloat(Fin(3)), NonConstant}}

AddSubAlphas ==
  {ConstantInt(1), ConstantInt(2), ConstantInt(IntMax(Bits64)),
   ConstantFloat(Fin(2)), NonConstant}

\* Both operands integer tensors of one type, i32 or i64
SameIntTensors(selfElem, other) ==
  other.isTensor /\ other.ty.elem = selfElem /\ selfElem \in {"i32", "i64"}

AddSubNodes ==
  {AddSubNode(op, e, o, al, 0, 0) :
     op \in {"add", "sub"}, e \in {"i8", "i32", "i64", "f32"},
     o \in AddSubOthers, al \in AddSubAlphas}
  \cup UNION {{AddSubNode(op, e, TensorOperand(TensorTy(<<2>>, e)), al, x, y) :
                 op \in {"add", "sub"}, al \in AddSubAlphas,
                 x \in ElemSamples(e), y \in ElemSamples(e)} :
              e \in {"i32", "i64"}}

\* The emitted ops are all integer ops with an integer alpha constant
IntegerPath(n) ==
  /\ SameIntTensors(n.self.elem, n.other)
  /\ n.alpha.kind = "int"
  /\ n.alpha.i \in IntRange(Bits32)

InitAddSub == pc = "ready" /\ node \in AddSubNodes /\ res = NoRes

LegalizeAddSub ==
  /\ pc = "ready"
  /\ node.kind = "addsub"
  /\ \E rhsCast \in CastOutcomes(node.other.scalar,
                                 IF node.outTy.elem = "f32" THEN "f32" ELSE "i32") :
       \E alphaCast \in CastOutcomes(node.alpha,
                                     IF node.outTy.elem = "f32" THEN "f32" ELSE "i32") :
         \E mode \in CastModes :
           LET r == ConvertAtenAddSubOp(node, rhsCast, alphaCast)
               env == [self |-> [val |-> node.x, elem |-> node.self.elem],
                       other |-> [val |-> node.y, elem |-> node.other.ty.elem]]
           IN  res' = IF r.ret = "success" /\ IntegerPath(node)
                      THEN [r EXCEPT !.info =
                              [value |-> EvalRef(r.created, Result(Len(r.created)),
                                                 env, mode).val,
                               mode |-> mode]]
                      ELSE r
  /\ pc' = "done"
  /\ UNCHANGED node

NextAddSub == LegalizeAddSub

SpecAddSub == InitAddSub /\ [][NextAddSub]_vars

\* C7: the add legalizer with constant alpha = 1 and one integer element type
\* (i32 or i64) on both operands and the output computes lhs + rhs in the
\* output width, for every element value representable in that width.
C7_AddAlphaOne ==
  (/\ pc = "done"
   /\ node.kind = "addsub"
   /\ node.op = "add"
   /\ SameIntTensors(node.self.elem, node.other)
   /\ node.alpha = ConstantInt(1))
  => /\ res.ret = "success"
     /\ res.info.value = Wrap(node.x + node.y, BitsOf(node.outTy.elem))


(***************************************************************************)
(* List operands, toPositiveDim / isValidDim.                              *)
(***************************************************************************)
ConstantIntList(l) == [kind |-> "intlist", l |-> l]
NonConstantList == [kind |-> "nonconst", l |-> <<>>]
m_TorchListOfConstantInts(v) == v.kind = "intlist"

toPositiveDim(dim, rank) == IF dim >= 0 THEN dim ELSE dim + rank
isValidDim(dim, rank) == dim >= 0 /\ dim < rank

\* A few operand shapes for the legalizers below
SmallShapes == {<<>>, <<6>>, <<2, 3>>, <<kDynamic, 3>>, <<1, 2, 3>>}

(***************************************************************************)
(* ConvertAtenOp<AtenReshapeOp>::matchAndRewrite                           *)
(***************************************************************************)
ConvertAtenReshapeOp(n) ==
  LET newShape == n.shape.l
      auto_sz == Cardinality({i \in 1..Len(newShape) : newShape[i] = -1})
      newType == TensorTy(makeShapeLLVMCompatible(newShape), n.self.elem)
  IN  IF ~m_TorchListOfConstantInts(n.shape)
      THEN Failure("Only constant shape supported in TOSA Reshape", <<>>)
      ELSE IF auto_sz > 1
      THEN Failure("At most one dimension may be specified as -1 to automatically calculate its size",
                   <<>>)
      ELSE Success(<<Emit("tosa.reshape", newType, newShape)>>, <<newType>>, newShape)

\* The result type aten.reshape declares: the -1 entry is the inferred size
\* when the operand is static, else unknown.
AtenReshapeResultShape(selfShape, list) ==
  LET known == Prod(SelectSeq(list, LAMBDA v : v # -1))
      total == Prod(selfShape)
      inferred == IF IsStaticShape(selfShape) /\ known > 0 /\ total % known = 0
                  THEN total \div known ELSE kDynamic
  IN  [i \in 1..Len(list) |-> IF list[i] = -1 THEN inferred ELSE list[i]]

\* A reshape torch accepts: non-negative sizes, at most one -1, and as many
\* elements as the operand when that is known.
ValidReshape(selfShape, list) ==
  /\ \A i \in 1..Len(list) : list[i] >= -1
  /\ Cardinality({i \in 1..Len(list) : list[i] = -1}) <= 1
  /\ IsStaticShape(selfShape)
     => LET known == Prod(SelectSeq(list, LAMBDA v : v # -1))
        IN  IF \E i \in 1..Len(list) : list[i] = -1
            THEN known > 0 /\ Prod(selfShape) % known = 0
            ELSE known = Prod(selfShape)

ReshapeLists ==
  {ConstantIntList(l) : l \in UNION {[1..k -> {-1, 1, 2, 3, 6}] : k \in 0..2}}
  \cup {NonConstantList}

ReshapeNode(selfShape, list) ==
  [kind |-> "reshape", self |-> TensorTy(selfShape, "f32"), shape |-> list,
   outTy |-> TensorTy(AtenReshapeResultShape(selfShape, list.l), "f32")]

ReshapeNodes == {ReshapeNode(sh, l) : sh \in SmallShapes, l \in ReshapeLists}

LegalizeReshape ==
  /\ pc = "ready"
  /\ node.kind = "reshape"
  /\ res' = ConvertAtenReshapeOp(node)
  /\ pc' = "done"
  /\ UNCHANGED node

(***************************************************************************)
(* ConvertAtenReductionOp and its readReduceDimsAndKeepDims variants.      *)
(***************************************************************************)
readReduceDimsAndKeepDims(n) ==
  IF n.variant = "all"
  THEN [ok |-> TRUE, reason |-> "",
        dims |-> [i \in 1..Len(n.self.shape) |-> i - 1], keepDims |-> FALSE]
  ELSE IF n.variant = "multi" /\ ~m_TorchListOfConstantInts(n.dim)
  THEN [ok |-> FALSE, reason |-> "non-const dim parameter unsupported",
        dims |-> <<>>, keepDims |-> FALSE]
  ELSE IF n.variant = "one" /\ ~m_TorchConstantInt(n.dim)
  THEN [ok |-> FALSE, reason |-> "non-const dim parameter unsupported",
        dims |-> <<>>, keepDims |-> FALSE]
  ELSE IF ~m_TorchConstantBool(n.keepdim)
  THEN [ok |-> FALSE, reason |-> "non-const keepdim parameter unsupported",
        dims |-> <<>>, keepDims |-> FALSE]
  ELSE [ok |-> TRUE, reason |-> "",
        dims |-> IF n.variant = "multi" THEN n.dim.l ELSE <<n.dim.i>>,
        keepDims |-> n.keepdim.i = 1]

\* The shared reduction routine: a value of the declared output type.
ConversionFuncT(outputTy, reduceDims, keepDims) ==
  <<Emit("tosa.reduce", outputTy, reduceDims)>>

ConvertAtenReductionOp(n) ==
  LET r == readReduceDimsAndKeepDims(n)
  IN  IF ~r.ok THEN Failure(r.reason, <<>>)
      ELSE Success(ConversionFuncT(n.outTy, r.dims, r.keepDims), <<n.outTy>>, r)

\* The result shape a reduction over dims declares
ReducedShape(shape, dims, keep) ==
  LET rank == Len(shape)
      red == {toPositiveDim(dims[i], rank) + 1 : i \in 1..Len(dims)}
      part(j) == IF j \notin red THEN <<shape[j]>>
                 ELSE IF keep THEN <<1>> ELSE <<>>
      RECURSIVE go(_)
      go(j) == IF j > rank THEN <<>> ELSE part(j) \o go(j + 1)
  IN  go(1)

ReductionNode(variant, shape, dimOperand, keepdim) ==
  [kind |-> "reduction", variant |-> variant, self |-> TensorTy(shape, "f32"),
   dim |-> dimOperand, keepdim |-> keepdim,
   outTy |-> TensorTy(
               IF variant = "all" THEN <<>>
               ELSE IF variant = "multi"
               THEN ReducedShape(shape, dimOperand.l, keepdim.i = 1)
               ELSE ReducedShape(shape, <<dimOperand.i>>, keepdim.i = 1),
               "f32")]

\* Operands as seen by the matchers: the int operand of the one-dim variant
\* and the list operand of the dim-list variant share the record fields.
IntOrList(i, l, kind) == [kind |-> kind, d |-> NaN, i |-> i, l |-> l]

ReductionNodes ==
  {ReductionNode("one", sh, IntOrList(i, <<>>, k), kd) :
     sh \in SmallShapes \ {<<>>}, i \in {-1, 0}, k \in {"int", "nonconst"},
     kd \in BoolOperands}
  \cup {ReductionNode("multi", sh, IntOrList(0, l, k), kd) :
          sh \in SmallShapes \ {<<>>}, l \in {<<>>, <<0>>, <<-1>>},
          k \in {"intlist", "nonconst"}, kd \in BoolOperands}
  \cup {ReductionNode("all", sh, IntOrList(0, <<>>, "none"), ConstantBool(FALSE)) :
          sh \in SmallShapes}

LegalizeReduction ==
  /\ pc = "ready"
  /\ node.kind = "reduction"
  /\ res' = ConvertAtenReductionOp(node)
  /\ pc' = "done"
  /\ UNCHANGED node


(***************************************************************************)
(* ConvertAtenLinearOp: readMatMulInputs and matchAndRewrite               *)
(***************************************************************************)
SwapLastTwo(seq) ==
  LET r == Len(seq)
  IN  [i \in 1..r |-> IF i = r THEN seq[r - 1] ELSE IF i = r - 1 THEN seq[r] ELSE seq[i]]

ConvertAtenLinearOp(n) ==
  LET lhsTy == n.input
      rhsTy == n.weight
      lhsRank == Len(lhsTy.shape)
      rhsRank == Len(rhsTy.shape)
      rhsShape == makeShapeTorchCompatible(rhsTy.shape)
      transposedRhsShape == SwapLastTwo(rhsShape)
      transposedRhsDims == SwapLastTwo([i \in 1..rhsRank |-> i - 1])
      transposedRhsType == TensorTy(makeShapeLLVMCompatible(transposedRhsShape),
                                    rhsTy.elem)
      rhsOps == EmitTranspose(transposedRhsType, transposedRhsDims)
      m == performMatmul(lhsTy, transposedRhsType)
      biasOps == IF n.bias = "none" THEN <<>>
                 ELSE <<Emit("tosa.add", m.output, <<>>)>>
  IN  IF lhsRank # 2 /\ lhsRank # 3
      THEN Failure("aten.Linear called but input rank not 2 or 3", <<>>)
      ELSE IF rhsRank # 2 /\ rhsRank # 3
      THEN Failure("aten.Linear called but weight rank not 2 or 3", <<>>)
      ELSE IF ~hasStaticShape(lhsTy.shape) \/ ~hasStaticShape(rhsTy.shape)
      THEN Failure("aten.Linear needs statically shaped input", <<>>)
      ELSE IF n.bias \notin {"none", "tensor"}
      THEN Failure("Only tensor types supported in GEMM to TOSA for bias tensor", <<>>)
      ELSE IF m.ret = "failure"
      THEN Failure("Failed to perform matmul operation", rhsOps \o m.created)
      ELSE Success(rhsOps \o m.created \o biasOps
                   \o <<Emit("tensor.cast", n.outTy, <<>>)>>,
                   <<n.outTy>>, m)

LinearNode(inputShape, weightShape, elems, bias) ==
  [kind |-> "linear", input |-> TensorTy(inputShape, elems[1]),
   weight |-> TensorTy(weightShape, elems[2]), bias |-> bias,
   outTy |-> TensorTy(
               (IF Len(inputShape) > 1 THEN SubSeq(inputShape, 1, Len(inputShape) - 1)
                ELSE <<>>)
               \o <<weightShape[Len(weightShape) - 1]>>, elems[1])]

LinearNodes ==
  {LinearNode(i, w, e, b) :
     i \in {<<3>>, <<2, 3>>, <<2, 2, 3>>, <<kDynamic, 3>>},
     w \in {<<4, 3>>, <<2, 4, 3>>},
     e \in {<<"f32", "f32">>, <<"f32", "i8">>, <<"i8", "i8">>},
     b \in {"none", "tensor", "other"}}

LegalizeLinear ==
  /\ pc = "ready"
  /\ node.kind = "linear"
  /\ res' = ConvertAtenLinearOp(node)
  /\ pc' = "done"
  /\ UNCHANGED node

(***************************************************************************)
(* ConvertAtenOp<AtenMaxDimOp>::matchAndRewrite                            *)
(***************************************************************************)
ConvertAtenMaxDimOp(n) ==
  LET selfShape == makeShapeTorchCompatible(n.self.shape)
      rank == Len(selfShape)
      dim == toPositiveDim(n.dim.i, rank)
      keepDim == n.keepdim.i = 1
      reducedShape == [i \in 1..rank |-> IF i - 1 = dim THEN 1 ELSE selfShape[i]]
      prunedShape == RemoveAt(selfShape, dim + 1)
      indicesType == n.indicesTy
      reduceMaxTy == TensorTy(makeShapeLLVMCompatible(reducedShape), n.self.elem)
      argMaxTy == TensorTy(makeShapeLLVMCompatible(prunedShape), indicesType.elem)
      prunedTy == TensorTy(makeShapeLLVMCompatible(prunedShape), n.self.elem)
      argReshape == IF argMaxTy # indicesType
                    THEN <<Emit("tosa.reshape", indicesType, reducedShape)>>
                    ELSE <<>>
      maxReshape == IF ~keepDim
                    THEN <<Emit("tosa.reshape", prunedTy, prunedShape)>>
                    ELSE <<>>
  IN  IF ~m_TorchConstantInt(n.dim)
      THEN Failure("dim must be a Scalar constant", <<>>)
      ELSE IF ~isValidDim(dim, rank)
      THEN Failure("dim must be less than tensor rank", <<>>)
      ELSE IF ~m_TorchConstantBool(n.keepdim)
      THEN Failure("keepdim must be a Scalar constant", <<>>)
      ELSE Success(<<Emit("tosa.reduce_max", reduceMaxTy, dim),
                     Emit("tosa.argmax", argMaxTy, dim)>>
                   \o argReshape \o maxReshape,
                   <<IF keepDim THEN reduceMaxTy ELSE prunedTy,
                     IF argMaxTy # indicesType THEN indicesType ELSE argMaxTy>>,
                   dim)

MaxDimNode(shape, dimOperand, keepdim) ==
  LET out == IF dimOperand.kind = "int"
                /\ isValidDim(toPositiveDim(dimOperand.i, Len(shape)), Len(shape))
             THEN ReducedShape(shape, <<dimOperand.i>>, keepdim.i = 1)
             ELSE <<>>
  IN  [kind |-> "maxdim", self |-> TensorTy(shape, "f32"), dim |-> dimOperand,
       keepdim |-> keepdim, outTy |-> TensorTy(out, "f32"),
       indicesTy |-> TensorTy(out, "i64")]

MaxDimNodes ==
  {MaxDimNode(sh, dm, kd) :
     sh \in SmallShapes, dm \in {ConstantInt(-1), ConstantInt(0), ConstantInt(1),
                                 ConstantInt(3), NonConstant},
     kd \in BoolOperands}

LegalizeMaxDim ==
  /\ pc = "ready"
  /\ node.kind = "maxdim"
  /\ res' = ConvertAtenMaxDimOp(node)
  /\ pc' = "done"
  /\ UNCHANGED node


(***************************************************************************)
(* ConvertAtenOp<AtenGatherOp>::matchAndRewrite                            *)
(***************************************************************************)
\* convertTorchIndexToTfIndices followed by convertGatherNdOp: a value of the
\* declared output type.
convertGatherNdOp(outType) == <<Emit("tosa.gather", outType, <<>>)>>

ConvertAtenGatherOp(n) ==
  LET inputType == n.self
      indexType == n.index
      paramsRank == Len(inputType.shape)
      indexOps == IF indexType.elem # "i32"
                  THEN <<Emit("tosa.cast", TensorTy(indexType.shape, "i32"),
                              <<Operand("index")>>)>>
                  ELSE <<>>
      dim == toPositiveDim(n.dim.i, paramsRank)
      sparseGrad == n.sparseGrad.i = 1
  IN  IF Len(indexType.shape) # Len(inputType.shape)
      THEN Failure("index and input param should have the same rank", <<>>)
      ELSE IF ~hasStaticShape(inputType.shape) \/ ~hasStaticShape(indexType.shape)
      THEN Failure("AtenGatherOp: support for dynamic input shape not implemented", <<>>)
      ELSE IF ~m_TorchConstantInt(n.dim)
      THEN Failure("unimplemented: value dim should be a torch constant int", indexOps)
      ELSE IF ~isValidDim(dim, paramsRank)
      THEN Failure("Not dim are invalid", indexOps)
      ELSE IF ~m_TorchConstantBool(n.sparseGrad)
      THEN Failure("only constant boolean sparse_grad param supported", indexOps)
      ELSE IF sparseGrad
      THEN Failure("only constant boolean sparse_grad == false supported", indexOps)
      ELSE Success(indexOps \o convertGatherNdOp(n.outTy), <<n.outTy>>, dim)

GatherNode(selfShape, indexShape, indexElem, dimOperand, sparseGrad) ==
  [kind |-> "gather", self |-> TensorTy(selfShape, "f32"),
   index |-> TensorTy(indexShape, indexElem), dim |-> dimOperand,
   sparseGrad |-> sparseGrad, outTy |-> TensorTy(indexShape, "f32")]

GatherNodes ==
  {GatherNode(sh, ix, e, dm, sg) :
     sh \in {<<2, 3>>, <<1, 2, 3>>, <<kDynamic, 3>>}, ix \in {<<2, 2>>, <<1, 2, 2>>},
     e \in {"i32", "i64"},
     dm \in {ConstantInt(-1), ConstantInt(0), ConstantInt(3), NonConstant},
     sg \in BoolOperands}

LegalizeGather ==
  /\ pc = "ready"
  /\ node.kind = "gather"
  /\ res' = ConvertAtenGatherOp(node)
  /\ pc' = "done"
  /\ UNCHANGED node

(***************************************************************************)
(* computeBatchNorm and ConvertAtenOp<AtenBatchNormOp>::matchAndRewrite    *)
(***************************************************************************)
computeBatchNorm(outType, varianceTy) ==
  <<Emit("tosa.sub", outType, <<>>), Emit("tosa.add", varianceTy, <<>>),
    Emit("tosa.rsqrt", varianceTy, <<>>), Emit("tosa.mul", outType, <<>>),
    Emit("tosa.mul", outType, <<>>), Emit("tosa.add", outType, <<>>)>>

\* The reshape of a rank-1 operand to [C, 1, ..., 1]
reshapeToNormInputDim(outType, toBcastType) ==
  LET newShape == <<makeShapeTorchCompatible(toBcastType.shape)[1]>>
                  \o Ones(Max(Len(outType.shape) - 2, 0))
      newType == TensorTy(makeShapeLLVMCompatible(newShape), outType.elem)
  IN  IF Len(toBcastType.shape) > 1
      THEN [ok |-> FALSE, ops |-> <<>>, ty |-> toBcastType]
      ELSE [ok |-> TRUE, ops |-> <<Emit("tosa.reshape", newType, newShape)>>,
            ty |-> newType]

ConvertAtenBatchNormOp(n) ==
  LET outType == n.outTy
      meanVal == reshapeToNormInputDim(outType, n.runningMean)
      varianceVal == reshapeToNormInputDim(outType, n.runningVar)
      weightVal == reshapeToNormInputDim(outType, n.weight)
      biasVal == reshapeToNormInputDim(outType, n.bias)
      reshapes == meanVal.ops \o varianceVal.ops \o weightVal.ops \o biasVal.ops
      epsilonConst == Emit("tosa.const", TensorTy(<<>>, "f32"), DoubleToF32(n.eps.d))
  IN  IF n.momentum.kind = "none"
      THEN Failure("Unsupported None for momentum", <<>>)
      ELSE IF ~meanVal.ok
      THEN Failure("Failed to reshape running mean", <<>>)
      ELSE IF ~varianceVal.ok
      THEN Failure("Failed to reshape running variance", meanVal.ops)
      ELSE IF ~weightVal.ok
      THEN Failure("Failed to reshape weight", meanVal.ops \o varianceVal.ops)
      ELSE IF ~biasVal.ok
      THEN Failure("Failed to reshape bias",
                   meanVal.ops \o varianceVal.ops \o weightVal.ops)
      ELSE IF ~m_TorchConstantFloat(n.eps)
      THEN Failure("eps must be a scalar constant", reshapes)
      ELSE Success(reshapes \o <<epsilonConst>>
                   \o computeBatchNorm(outType, varianceVal.ty),
                   <<outType>>, <<>>)

BatchNormNode(inputShape, statRank, biasRank, momentum, eps, training) ==
  LET stat(r) == TensorTy([i \in 1..r |-> inputShape[2]], "f32")
  IN  [kind |-> "batchnorm", input |-> TensorTy(inputShape, "f32"),
       runningMean |-> stat(statRank), runningVar |-> stat(1),
       weight |-> stat(1), bias |-> stat(biasRank), momentum |-> momentum,
       eps |-> eps, training |-> training, outTy |-> TensorTy(inputShape, "f32")]

EpsOperands == {ConstantFloat(Fin(1)), ConstantInt(0), NonConstant}

BatchNormNodes ==
  {BatchNormNode(sh, sr, br, mo, ep, tr) :
     sh \in {<<2, 3>>, <<1, 2, 3>>, <<2, 3, 2, 2>>, <<kDynamic, 3, 2, 2>>},
     sr \in {1, 2}, br \in {1, 2},
     mo \in {NoneOperand, ConstantFloat(Fin(1))}, ep \in EpsOperands,
     tr \in BoolOperands}

LegalizeBatchNorm ==
  /\ pc = "ready"
  /\ node.kind = "batchnorm"
  /\ res' = ConvertAtenBatchNormOp(node)
  /\ pc' = "done"
  /\ UNCHANGED node


(***************************************************************************)
(* ConvertAtenOp<AtenNativeLayerNormOp>::matchAndRewrite                   *)
(***************************************************************************)
NoneTy == TensorTy(<<>>, "none")

\* One tosa.reduce_sum per normalized dim, innermost first, then a reshape
RECURSIVE reduceSums(_, _, _, _)
reduceSums(toReduceShape, i, meanAndVarShapeRank, elemTy) ==
  IF i < meanAndVarShapeRank THEN <<>>
  ELSE LET reduced == [toReduceShape EXCEPT ![i + 1] = 1]
       IN  <<Emit("tosa.reduce_sum",
                  TensorTy(makeShapeLLVMCompatible(reduced), elemTy), i)>>
           \o reduceSums(reduced, i - 1, meanAndVarShapeRank, elemTy)

computeSumAndReshape(toReduceType, outType, outShape, meanAndVarShapeRank) ==
  reduceSums(makeShapeTorchCompatible(toReduceType.shape),
             Len(toReduceType.shape) - 1, meanAndVarShapeRank, toReduceType.elem)
  \o <<Emit("tosa.reshape", outType, outShape)>>

ConvertAtenNativeLayerNormOp(n) ==
  LET inputType == n.input
      inputRank == Len(inputType.shape)
      elemTy == inputType.elem
      inputTypeShape == makeShapeTorchCompatible(inputType.shape)
      normalizedShapeSizesInt == n.normalizedShape.l
      normalizedShapeRank == Len(normalizedShapeSizesInt)
      meanAndVarShapeRank == inputRank - normalizedShapeRank
      weightShape == makeShapeTorchCompatible(n.weight.shape)
      biasShape == makeShapeTorchCompatible(n.bias.shape)
      elemCnt == Prod(normalizedShapeSizesInt)
      bcastOutShape == [i \in 1..inputRank |->
                          IF i - 1 >= meanAndVarShapeRank THEN 1 ELSE inputTypeShape[i]]
      bcastOutType == TensorTy(makeShapeLLVMCompatible(bcastOutShape), elemTy)
      weightAndBiasBcastShape ==
        [i \in 1..inputRank |->
           IF i - 1 < meanAndVarShapeRank THEN 1 ELSE inputTypeShape[i]]
      weightAndMeanBcastType ==
        TensorTy(makeShapeLLVMCompatible(weightAndBiasBcastShape), elemTy)
      sumOps == computeSumAndReshape(inputType, bcastOutType, bcastOutShape,
                                     meanAndVarShapeRank)
      beforeEps ==
        <<Emit("tosa.const", TensorTy(<<1>>, "f32"), elemCnt),
          Emit("tosa.reciprocal", TensorTy(<<1>>, "f32"), <<>>)>>
        \o sumOps
        \o <<Emit("tosa.mul", bcastOutType, <<>>),
             Emit("tosa.sub", inputType, <<>>),
             Emit("tosa.mul", inputType, <<>>)>>
        \o sumOps
        \o <<Emit("tosa.mul", bcastOutType, <<>>),
             Emit("tosa.reshape", weightAndMeanBcastType, weightAndBiasBcastShape),
             Emit("tosa.reshape", weightAndMeanBcastType, weightAndBiasBcastShape)>>
      epsilonConst == Emit("tosa.const", TensorTy(<<>>, "f32"), DoubleToF32(n.eps.d))
  IN  IF inputRank > 4
      THEN Failure("Only up to 4D tensors are supported", <<>>)
      ELSE IF n.weight = NoneTy
      THEN Failure("Unsupported None for weight", <<>>)
      ELSE IF n.bias = NoneTy
      THEN Failure("Unsupported None for bias", <<>>)
      ELSE IF ~m_TorchListOfConstantInts(n.normalizedShape)
      THEN Failure("Unimplemented normalized_shape not constructed from ListConstruct", <<>>)
      ELSE IF \/ Len(n.weight.shape) # normalizedShapeRank
              \/ Len(n.bias.shape) # normalizedShapeRank
              \/ inputRank < normalizedShapeRank
              \/ normalizedShapeRank < 1
      THEN Failure("Input or weight or bias shape or normalized shape not compatible", <<>>)
      ELSE IF \E index \in 0..(normalizedShapeRank - 1) :
                \/ inputTypeShape[index + meanAndVarShapeRank + 1]
                     # normalizedShapeSizesInt[index + 1]
                \/ weightShape[index + 1] # normalizedShapeSizesInt[index + 1]
                \/ biasShape[index + 1] # normalizedShapeSizesInt[index + 1]
      THEN Failure("mismatching contracting dimension", <<>>)
      ELSE IF ~m_TorchConstantFloat(n.eps)
      THEN Failure("eps must be a scalar constant", beforeEps)
      ELSE Success(beforeEps \o <<epsilonConst>>
                   \o computeBatchNorm(n.outTy, bcastOutType),
                   <<n.outTy, bcastOutType, bcastOutType>>, <<>>)

\* The three result types aten.native_layer_norm declares: the output, and
\* mean and rstd of shape input.shape[:axis] ++ [1, ..., 1].
LayerNormNode(inputShape, list, weightTy, biasTy, eps) ==
  LET axis == Len(inputShape) - Len(list.l)
      stat == TensorTy([i \in 1..Len(inputShape) |->
                          IF i > axis THEN 1 ELSE inputShape[i]], "f32")
  IN  [kind |-> "layernorm", input |-> TensorTy(inputShape, "f32"),
       normalizedShape |-> list, weight |-> weightTy, bias |-> biasTy,
       eps |-> eps, outTy |-> TensorTy(inputShape, "f32"),
       meanTy |-> stat, rstdTy |-> stat]

LayerNormNodes ==
  {LayerNormNode(sh, l, w, b, ep) :
     sh \in {<<2, 3>>, <<1, 2, 3>>, <<kDynamic, 3>>, <<1, 1, 1, 2, 3>>},
     l \in {ConstantIntList(<<3>>), ConstantIntList(<<2, 3>>),
            ConstantIntList(<<4>>), NonConstantList},
     w \in {TensorTy(<<3>>, "f32"), TensorTy(<<2, 3>>, "f32"), NoneTy},
     b \in {TensorTy(<<3>>, "f32"), TensorTy(<<2, 3>>, "f32"), NoneTy},
     ep \in EpsOperands}

LegalizeLayerNorm ==
  /\ pc = "ready"
  /\ node.kind = "layernorm"
  /\ res' = ConvertAtenNativeLayerNormOp(node)
  /\ pc' = "done"
  /\ UNCHANGED node

(***************************************************************************)
(* The legalizers together: one source op, one matchAndRewrite.            *)
(***************************************************************************)
LegalizerNodes ==
  {MatmulNode(e[1], e[2]) : e \in ExampleOperands}
  \cup SqueezeNodes \cup ArgmaxNodes \cup AddSubNodes \cup ReshapeNodes
  \cup ReductionNodes \cup LinearNodes \cup MaxDimNodes \cup GatherNodes
  \cup BatchNormNodes \cup LayerNormNodes

InitLegalize == pc = "ready" /\ node \in LegalizerNodes /\ res = NoRes

NextLegalize ==
  \/ LegalizeMatmul
  \/ LegalizeSqueeze
  \/ LegalizeArgmax
  \/ LegalizeAddSub
  \/ LegalizeReshape
  \/ LegalizeReduction
  \/ LegalizeLinear
  \/ LegalizeMaxDim
  \/ LegalizeGather
  \/ LegalizeBatchNorm
  \/ LegalizeLayerNorm

SpecLegalize == InitLegalize /\ [][NextLegalize]_vars


(***************************************************************************)
(* Contracts of every legalizer                                            *)
(***************************************************************************)
\* Same rank, same element type, each dimension equal or unknown on one side
AssignCompatible(a, b) ==
  /\ a.elem = b.elem
  /\ Len(a.shape) = Len(b.shape)
  /\ \A i \in 1..Len(a.shape) :
       a.shape[i] = b.shape[i] \/ a.shape[i] = kDynamic \/ b.shape[i] = kDynamic

\* The declared output type(s) of the source node, in result order
DeclaredOutputTypes(n) ==
  IF n.kind = "maxdim" THEN <<n.outTy, n.indicesTy>>
  ELSE IF n.kind = "layernorm" THEN <<n.outTy, n.meanTy, n.rstdTy>>
  ELSE <<n.outTy>>

\* The source node is one a valid program can hold: a constant dim operand
\* lies in [-rank, rank).
DimInRange(n) ==
  (n.kind \in {"argmax", "squeeze"} /\ n.dim.kind = "int")
    => (n.dim.i + Len(n.self.shape) >= 0 /\ n.dim.i < Len(n.self.shape))

\* C2: whenever a legalizer succeeds, each value replacing the source node
\* has a type assignment-compatible with the corresponding declared output
\* type of the node.
C2_ReplacementTypes ==
  (pc = "done" /\ res.ret = "success" /\ DimInRange(node))
    => /\ Len(res.repl) = Len(DeclaredOutputTypes(node))
       /\ \A k \in 1..Len(res.repl) :
            AssignCompatible(res.repl[k], DeclaredOutputTypes(node)[k])

\* C3: whenever a legalizer returns failure, it has created no target node.
C3_FailureCreatesNothing ==
  (pc = "done" /\ res.ret = "failure") => res.created = <<>>

\* A shape-determining attribute operand of the node is present but is not a
\* compile-time constant.
NonConstantShapeAttr(n) ==
  \/ n.kind \in {"argmax", "maxdim", "reduction"}
       /\ (n.dim.kind = "nonconst" \/ n.keepdim.kind = "nonconst")
  \/ n.kind = "squeeze" /\ n.variant = "dim" /\ n.dim.kind = "nonconst"
  \/ n.kind = "reshape" /\ n.shape.kind = "nonconst"

\* C4: a legalizer whose shape-determining attribute operand is present but
\* not constant returns failure.
C4_NonConstantAttrFails ==
  (pc = "done" /\ NonConstantShapeAttr(node)) => res.ret = "failure"


(***************************************************************************)
(* ConvertTorchToTosa::runOnOperation                                      *)
(*                                                                         *)
(* node is the function the pass runs on, res the state of the pass: the   *)
(* conversion target, the pattern set, the body being converted and        *)
(* whether signalPassFailure was called.                                   *)
(***************************************************************************)
MaxBody == 2

\* The name of an operation: the kind of a source op, the op of an emitted one
OpName(o) == IF "kind" \in DOMAIN o THEN o.kind ELSE o.op

\* target.addLegalDialect<tosa::TosaDialect, tensor::TensorDialect,
\*                        arith::ArithDialect>()
LegalOpNames ==
  {"tosa.const", "tosa.argmax", "tosa.reshape", "tosa.transpose", "tosa.matmul",
   "tosa.cast", "tosa.reduce_max", "tosa.reduce_sum", "tosa.reciprocal",
   "tosa.mul", "tosa.sub", "tosa.add", "tosa.rsqrt", "tosa.gather",
   "arith.extsi", "tensor.cast", "reduction.func", "gather.nd"}

\* A registration macro that adds the pattern and leaves the target alone
INSERT_ATENOP_PATTERN_PatternOnly(st, AtenOp) ==
  [st EXCEPT !.patterns = @ \cup {AtenOp}]

\* #define INSERT_..._PATTERN(AtenOp):
\*   target.addIllegalOp<AtenOp>(); patterns.add<Convert...<AtenOp>>(...)
INSERT_ATENOP_PATTERN(st, AtenOp) ==
  [st EXCEPT !.illegal = @ \cup {AtenOp}, !.patterns = @ \cup {AtenOp}]

\* Registrations of legalizers modelled above, in source order
DispatchTable ==
  <<"reduction", "squeeze", "matmul", "argmax", "reshape",
    "batchnorm", "layernorm", "maxdim", "gather">>

RECURSIVE registerAll(_, _)
registerAll(st, k) ==
  IF k > Len(DispatchTable) THEN st
  ELSE registerAll(INSERT_ATENOP_PATTERN(st, DispatchTable[k]), k + 1)

\* The pattern registered for the op's kind
matchAndRewrite(n) ==
  CASE n.kind = "matmul" -> ConvertAtenMatMulOp(n)
    [] n.kind = "squeeze" -> ConvertAtenSqueezeOp(n)
    [] n.kind = "argmax" -> ConvertAtenArgmaxOp(n)
    [] n.kind = "reshape" -> ConvertAtenReshapeOp(n)
    [] n.kind = "reduction" -> ConvertAtenReductionOp(n)
    [] n.kind = "maxdim" -> ConvertAtenMaxDimOp(n)
    [] n.kind = "gather" -> ConvertAtenGatherOp(n)
    [] n.kind = "batchnorm" -> ConvertAtenBatchNormOp(n)
    [] n.kind = "layernorm" -> ConvertAtenNativeLayerNormOp(n)

\* An op of the torch dialect that has no registration in this pass
UnregisteredOp == [kind |-> "torch.other"]

BodyOps ==
  {ArgmaxNode(<<2, 2>>, ConstantInt(0), ConstantBool(FALSE)),
   ArgmaxNode(<<2, 2>>, ConstantInt(0), NonConstant),
   SqueezeNode("all", <<1, 2>>, NoneOperand),
   MaxDimNode(<<2, 3>>, NonConstant, ConstantBool(TRUE)),
   MaxDimNode(<<2, 3>>, ConstantInt(1), ConstantBool(FALSE)),
   GatherNode(<<2, 3>>, <<2, 2>>, "i32", NonConstant, ConstantBool(FALSE)),
   MatmulNode(<<4, 5, 6>>, <<1, 6, 7>>),
   UnregisteredOp,
   Emit("tosa.const", TensorTy(<<1>>, "f32"), 0)}

Bodies == UNION {[1..k -> BodyOps] : k \in 0..MaxBody}

NewPass ==
  [ret |-> "none", illegal |-> {}, patterns |-> {}, body |-> <<>>, next |-> 1,
   replaced |-> {}, origin |-> 1, signalled |-> FALSE]

InitPass ==
  /\ pc = "setup"
  /\ node \in {[kind |-> "func.func", body |-> b] : b \in Bodies}
  /\ res = NewPass

\* runOnOperation up to the call of applyPartialConversion
RegisterPatterns ==
  /\ pc = "setup"
  /\ res' = [registerAll(res, 1) EXCEPT !.body = node.body]
  /\ pc' = "convert"
  /\ UNCHANGED node

isLegal(st, o) == OpName(o) \in LegalOpNames
isIllegal(st, o) == OpName(o) \in st.illegal

\* applyPartialConversion, one op: an op the target declares legal stays; an
\* op with a pattern that succeeds is replaced by what the pattern created
LegalizeOp ==
  /\ pc = "convert"
  /\ res.next <= Len(res.body)
  /\ LET o == res.body[res.next]
         r == matchAndRewrite(o)
         before == SubSeq(res.body, 1, res.next - 1)
         after == SubSeq(res.body, res.next + 1, Len(res.body))
     IN  IF ~isLegal(res, o) /\ OpName(o) \in res.patterns /\ r.ret = "success"
         THEN /\ res' = [res EXCEPT !.body = before \o r.created \o after,
                                    !.next = @ + Len(r.created),
                                    !.replaced = @ \cup {res.origin},
                                    !.origin = @ + 1]
              /\ pc' = "convert"
         ELSE IF ~isLegal(res, o) /\ isIllegal(res, o)
         \* failed to legalize an illegal op: everything is rolled back
         THEN /\ res' = [res EXCEPT !.body = node.body, !.replaced = {},
                                    !.ret = "failure"]
              /\ pc' = "failed"
         ELSE /\ res' = [res EXCEPT !.next = @ + 1, !.origin = @ + 1]
              /\ pc' = "convert"
  /\ UNCHANGED node

\* if (failed(applyPartialConversion(...))) return signalPassFailure();
SignalPassFailure ==
  /\ pc = "failed"
  /\ res' = [res EXCEPT !.signalled = TRUE]
  /\ pc' = "exit"
  /\ UNCHANGED node

PassSucceeds ==
  /\ pc = "convert"
  /\ res.next > Len(res.body)
  /\ res' = [res EXCEPT !.ret = "success"]
  /\ pc' = "exit"
  /\ UNCHANGED node

NextPass ==
  \/ RegisterPatterns
  \/ LegalizeOp
  \/ SignalPassFailure
  \/ PassSucceeds

SpecPass == InitPass /\ [][NextPass]_vars

\* The kinds with a registered legalizer
DispatchKinds == {DispatchTable[k] : k \in 1..Len(DispatchTable)}

\* C9: at the exit of the pass every op of the function whose kind is in the
\* dispatch table has been replaced or the pass has signalled failure; if no
\* failure was signalled no op of a dispatch-table kind remains in the body;
\* and every kind with a registered pattern is illegal in the target.
C9_PassExit ==
  /\ res.patterns \subseteq res.illegal
  /\ pc = "exit" =>
       /\ res.patterns = DispatchKinds
       /\ \A i \in 1..Len(node.body) :
            OpName(node.body[i]) \in DispatchKinds
              => (i \in res.replaced \/ res.signalled)
       /\ ~res.signalled =>
            \A j \in 1..Len(res.body) : OpName(res.body[j]) \notin DispatchKinds

\* The pass has exited without failure on a body that held an argmax and an
\* unregistered op: the argmax is now a tosa.argmax and an arith.extsi.
C9_Witness ==
  /\ pc = "exit"
  /\ ~res.signalled
  /\ Len(node.body) = 2
  /\ OpName(node.body[1]) = "argmax"
  /\ node.body[2] = UnregisteredOp
  /\ res.replaced = {1}
  /\ Len(res.body) = 3
  /\ OpName(res.body[1]) = "tosa.argmax"
  /\ OpName(res.body[2]) = "arith.extsi"
  /\ res.body[3] = UnregisteredOp


(***************************************************************************)
(* approximateErfOp.  f32 values are modelled in fixed point with six      *)
(* decimal places (the value v stands for v / 10^6); the arithmetic below  *)
(* truncates where f32 rounds.                                             *)
(***************************************************************************)
FxOne == 1000 * 1000

\* tosa.mul of two non-negative values, split to stay within 32 bits
tosaMul(a, b) ==
  LET ah == a \div 1000
      al == a % 1000
      bh == b \div 1000
      bl == b % 1000
  IN  ah * bh + (ah * bl + al * bh) \div 1000 + (al * bl) \div FxOne

\* tosa.reciprocal of a value >= 1: 10^12 / p by long division
tosaReciprocal(p) ==
  LET q0 == (1000 * FxOne) \div p
      r0 == (1000 * FxOne) % p
      d1 == (r0 * 10) \div p
      r1 == (r0 * 10) % p
      d2 == (r1 * 10) \div p
      r2 == (r1 * 10) % p
      d3 == (r2 * 10) \div p
  IN  q0 * 1000 + d1 * 100 + d2 * 10 + d3

\* rcprl4 computed as the square of rcprl instead of the square of rcprl2
erfRcprl4_Square(rcprl, rcprl2) == tosaMul(rcprl, rcprl)

erfRcprl4(rcprl, rcprl2) == tosaMul(rcprl2, rcprl2)

\* The values of the ops approximateErfOp emits, in order of creation
approximateErfOp(x) ==
  LET absX == Abs(x)
      zero == 0
      one == FxOne
      a1 == 278393
      a1X == tosaMul(a1, absX)
      sum1 == a1X + one
      a2 == 230389
      x2 == tosaMul(absX, absX)
      a2X == tosaMul(a2, x2)
      sum2 == sum1 + a2X
      a3 == 972
      x3 == tosaMul(x2, absX)
      a3X == tosaMul(a3, x3)
      sum3 == sum2 + a3X
      a4 == 78108
      x4 == tosaMul(x3, absX)
      a4X == tosaMul(a4, x4)
      sum == sum3 + a4X
      rcprl == tosaReciprocal(sum)
      rcprl2 == tosaMul(rcprl, rcprl)
      rcprl4 == erfRcprl4(rcprl, rcprl2)
      erf == one - rcprl4
      cond == x >= zero
      negateErf == -erf
  IN  [sum |-> sum, rcprl |-> rcprl, erf |-> erf, cond |-> cond,
       select |-> IF cond THEN erf ELSE negateErf,
       created |-> <<"tosa.abs", "tosa.const", "tosa.const", "tosa.const",
                     "tosa.mul", "tosa.add", "tosa.const", "tosa.mul",
                     "tosa.mul", "tosa.add", "tosa.const", "tosa.mul",
                     "tosa.mul", "tosa.add", "tosa.const", "tosa.mul",
                     "tosa.mul", "tosa.add", "tosa.reciprocal", "tosa.mul",
                     "tosa.mul", "tosa.sub", "tosa.greater_equal",
                     "tosa.negate", "tosa.select">>]

\* The sampled arguments: x = k / 8 for k in -48 .. 48, i.e. [-6, 6]
ErfSamples == {k * (FxOne \div 8) : k \in -48..48}

\* erf(k / 8) for k = 0 .. 48, rounded to six decimal places
ErfTable ==
  <<
    0, 140316, 276326, 404117, 520500, 623241, 711156,
    784075, 842701, 888388, 922900, 948170, 966105, 978444,
    986672, 991990, 995322, 997346, 998537, 999217, 999593,
    999795, 999899, 999952, 999978, 999990, 999996, 999998,
    999999, 1000000, 1000000, 1000000, 1000000, 1000000, 1000000,
    1000000, 1000000, 1000000, 1000000, 1000000, 1000000, 1000000,
    1000000, 1000000, 1000000, 1000000, 1000000, 1000000, 1000000
  >>

\* The true error function at a sampled argument (erf is odd)
ErfReference(x) == Sign(x) * ErfTable[(Abs(x) \div (FxOne \div 8)) + 1]

InitErf ==
  /\ pc = "ready"
  /\ node \in {[kind |-> "erf", x |-> x] : x \in ErfSamples}
  /\ res = NoRes

ApproximateErf ==
  /\ pc = "ready"
  /\ node.kind = "erf"
  /\ res' = [ret |-> "value"] @@ approximateErfOp(node.x)
  /\ pc' = "done"
  /\ UNCHANGED node

NextErf == ApproximateErf

SpecErf == InitErf /\ [][NextErf]_vars

\* C11: for every sampled x in [-6, 6] the value computed by the op sequence
\* of approximateErfOp, sign(x) * (1 - (1 + a1|x| + a2|x|^2 + a3|x|^3 +
\* a4|x|^4)^-4), is within 6e-4 of erf(x).
C11_ErfBound ==
  (pc = "done" /\ node.kind = "erf")
    => /\ Abs(res.select - ErfReference(node.x)) < 600
       /\ res.select = Sign(node.x) * (FxOne - tosaMul(tosaMul(res.rcprl, res.rcprl), tosaMul(res.rcprl, res.rcprl)))

\* The approximation at x = -0.75, close to where its error is largest
\* (about 4.66e-4), has been computed.
C11_Witness ==
  /\ pc = "done"
  /\ node.kind = "erf"
  /\ node.x = -750000
  /\ res.select < 0
  /\ Abs(res.select - ErfReference(node.x)) > 400


(***************************************************************************)
(* Properties of the transposes and of the dimension partition of          *)
(* performMatmul                                                           *)
(***************************************************************************)
\* tosa.transpose: result dim i has the size of input dim perms[i]
TransposeShape(inputShape, perms) ==
  [i \in 1..Len(perms) |-> inputShape[perms[i] + 1]]

\* C12: for static broadcast-compatible operands, every transpose emitted by
\* performMatmul (left operand, right operand, output) declares the result
\* shape that its permutation gives when applied to the shape of its input.
C12_TransposeConsistent ==
  (pc = "done" /\ StaticBroadcastMatmul(node) /\ res.ret = "success")
  => LET m == res.info
     IN  /\ m.lhsNeedsTranspose =>
              /\ Len(m.transposedLhsDims) = Len(m.lhsBroadcastedShape)
              /\ TransposeShape(m.lhsBroadcastedShape, m.transposedLhsDims)
                   = m.transposedLhsShape
         /\ m.rhsNeedsTranspose =>
              /\ Len(m.transposedRhsDims) = Len(m.rhsBroadcastedShape)
              /\ TransposeShape(m.rhsBroadcastedShape, m.transposedRhsDims)
                   = m.transposedRhsShape
         /\ m.opNeedsTranspose =>
              /\ Len(m.opShape.transposedOpDims) = Len(m.opShape.reshapedOpShape)
              /\ TransposeShape(m.opShape.reshapedOpShape, m.opShape.transposedOpDims)
                   = m.opShape.transposedOpShapes


\* Static operands of which at least one is a vector [K], with matching
\* contraction sizes
StaticVectorMatmul(n) ==
  /\ n.kind = "matmul"
  /\ IsStaticShape(n.lhs.shape) /\ IsStaticShape(n.rhs.shape)
  /\ Len(n.lhs.shape) = 1 \/ Len(n.rhs.shape) = 1
  /\ n.lhs.shape[Len(n.lhs.shape)]
       = n.rhs.shape[IF Len(n.rhs.shape) = 1 THEN 1 ELSE Len(n.rhs.shape) - 1]

\* C13: for static shapes performMatmul returns rank 0 for [K]x[K], shape
\* [b...,M] for [b...,M,K]x[K] and [b...,N] for [K]x[b...,K,N], for every
\* batch prefix b; a rank-1 right operand is rank-broadcast as [1,...,1,K,1]
\* and a rank-1 left operand as [1,...,1,K].
C13_VectorOperands ==
  (pc = "done" /\ StaticVectorMatmul(node))
  => LET l == node.lhs.shape
         r == node.rhs.shape
         n == IF Max(Len(l), Len(r)) = 1 THEN 2 ELSE Max(Len(l), Len(r))
     IN  /\ res.ret = "success"
         /\ Len(l) = 1 => res.info.lhsBroadcastedShape = Ones(n - 1) \o l
         /\ Len(r) = 1 => res.info.rhsBroadcastedShape = Ones(n - 2) \o r \o <<1>>
         /\ res.info.output.shape =
              IF Len(l) = 1 /\ Len(r) = 1 THEN <<>>
              ELSE IF Len(r) = 1 THEN SubSeq(l, 1, Len(l) - 1)
              ELSE SubSeq(r, 1, Len(r) - 2) \o <<r[Len(r)]>>


\* The 0-based dimension numbers 0 .. n-1 each occur exactly once in dims
IsPermutation(dims, n) ==
  /\ Len(dims) = n
  /\ \A d \in 0..(n - 1) : \E i \in 1..n : dims[i] = d

\* C14: on the batch-broadcast path the dimension order computed for the
\* left operand and the one computed for the right operand are permutations
\* of 0..maxRank-1, and a batch dimension is common when the two sizes are
\* equal or when either of them is unknown.
C14_BatchPartition ==
  (pc = "done" /\ node.kind = "matmul" /\ res.ret = "success"
   /\ res.info.performBatchDimBroadcast)
  => LET m == res.info
         n == Len(m.lhsBroadcastedShape)
     IN  /\ IsPermutation(m.transposedLhsDims, n)
         /\ IsPermutation(m.transposedRhsDims, n)
         /\ \A d \in 0..(n - 3) :
              (\/ m.lhsBroadcastedShape[d + 1] = m.rhsBroadcastedShape[d + 1]
               \/ m.lhsBroadcastedShape[d + 1] = kUnknownSize
               \/ m.rhsBroadcastedShape[d + 1] = kUnknownSize)
              => \E i \in 1..Len(m.commonElems) : m.commonElems[i].dim = d


\* C15: the two rank-3 operands handed to tosa.matmul have the same dim-0
\* size on every path of performMatmul, for all operand ranks >= 1 and all
\* combinations of static and unknown sizes (the assertion of the code).
C15_SameBatchSize ==
  (pc = "done" /\ node.kind = "matmul" /\ res.ret = "success")
  => /\ Len(res.info.matmulLhsShape) = 3
     /\ Len(res.info.matmulRhsShape) = 3
     /\ res.info.matmulLhsShape[1] = res.info.matmulRhsShape[1]

\* [2, ?, 3, 4] x [1, 2, 4, 5] has gone through the batch-broadcast path and
\* both matmul operands have an unknown batch size.
C15_Witness ==
  /\ pc = "done"
  /\ node.kind = "matmul"
  /\ node.lhs.shape = <<2, kDynamic, 3, 4>>
  /\ node.rhs.shape = <<1, 2, 4, 5>>
  /\ res.ret = "success"
  /\ res.info.performBatchDimBroadcast
  /\ res.info.matmulLhsShape[1] = res.info.matmulRhsShape[1]
  /\ CountOps(res.created, "tosa.matmul") = 1


\* C16: on the batch-broadcast path, when any batch dimension of either
\* operand is unknown, the collapsed common size (dim 0 of both rank-3
\* matmul operands) is the unknown sentinel, however many batch dimensions
\* are unknown.
C16_UnknownCommonSize ==
  (/\ pc = "done"
   /\ node.kind = "matmul"
   /\ res.ret = "success"
   /\ res.info.performBatchDimBroadcast
   /\ \E d \in 1..(Len(res.info.lhsBroadcastedShape) - 2) :
        \/ res.info.lhsBroadcastedShape[d] = kUnknownSize
        \/ res.info.rhsBroadcastedShape[d] = kUnknownSize)
  => /\ res.info.matmulLhsShape[1] = kUnknownSize
     /\ res.info.matmulRhsShape[1] = kUnknownSize


\* The ops performMatmul creates after its tosa.matmul
OpsAfterMatmul(created) ==
  LET i == CHOOSE j \in 1..Len(created) : created[j].op = "tosa.matmul"
  IN  SubSeq(created, i + 1, Len(created))

MatmulResultTy(created) ==
  LET i == CHOOSE j \in 1..Len(created) : created[j].op = "tosa.matmul"
  IN  created[i].ty

\* Max input rank 3 with equal dim-0 sizes: the one case without batch
\* broadcast in which the matmul output already has the output's rank
Rank3NoBroadcast(info) ==
  /\ Len(info.lhsBroadcastedShape) = 3
  /\ info.lhsBroadcastedShape[1] = info.rhsBroadcastedShape[1]

\* C17 as stated: when the max input rank is below 3, or is 3 with equal
\* dim-0 sizes (no batch broadcast), performMatmul returns the rank-3 matmul
\* output directly, with no reshape or transpose after the matmul; the
\* trailing reshape appears only in the remaining cases.
C17_DirectOutputBelowRank3 ==
  (pc = "done" /\ node.kind = "matmul" /\ res.ret = "success")
  => LET info == res.info
         after == OpsAfterMatmul(info.created)
     IN  IF Len(info.lhsBroadcastedShape) < 3 \/ Rank3NoBroadcast(info)
         THEN after = <<>> /\ info.output = MatmulResultTy(info.created)
         ELSE CountOps(after, "tosa.reshape") = 1

\* C17 (amended): performMatmul returns the matmul output directly exactly
\* when the max input rank is 3 and the dim-0 sizes are equal; in every
\* other case, max rank below 3 included, exactly one reshape follows the
\* matmul, followed by at most one transpose, and the last of them is the
\* output.
C17_DirectOutputOnlyRank3 ==
  (pc = "done" /\ node.kind = "matmul" /\ res.ret = "success")
  => LET info == res.info
         after == OpsAfterMatmul(info.created)
     IN  IF Rank3NoBroadcast(info)
         THEN /\ ~info.performOpReshape
              /\ after = <<>>
              /\ info.output = MatmulResultTy(info.created)
         ELSE /\ info.performOpReshape
              /\ after # <<>>
              /\ after[1].op = "tosa.reshape"
              /\ CountOps(after, "tosa.reshape") = 1
              /\ CountOps(after, "tosa.transpose") <= 1
              /\ info.output = after[Len(after)].ty

\* [14, 19] x [19, 28]: max rank 2, and a reshape to [14, 28] follows the
\* matmul, whose own result is [1, 14, 28].
C17_Witness ==
  /\ pc = "done"
  /\ node.kind = "matmul"
  /\ node.lhs.shape = <<14, 19>>
  /\ node.rhs.shape = <<19, 28>>
  /\ res.ret = "success"
  /\ MatmulResultTy(res.info.created).shape = <<1, 14, 28>>
  /\ Len(OpsAfterMatmul(res.info.created)) = 1
  /\ OpsAfterMatmul(res.info.created)[1].op = "tosa.reshape"
  /\ res.info.output.shape = <<14, 28>>


\* Every tosa.mul created takes created operands of its own element type
MulOperandsTyped(created) ==
  \A i \in 1..Len(created) :
    created[i].op = "tosa.mul"
    => \A j \in 1..Len(created[i].attr) :
         created[i].attr[j].src = "op"
         => created[created[i].attr[j].idx].ty.elem = created[i].ty.elem

\* C18: for add/sub with an integer output type, a constant integer alpha
\* outside the signed 32-bit range makes the legalization fail; it is never
\* materialized as a constant of another element type and fed to the 32-bit
\* multiply.
C18_AlphaOutOfRangeFails ==
  (/\ pc = "done"
   /\ node.kind = "addsub"
   /\ ~IsFloatType(node.outTy.elem)
   /\ node.alpha.kind = "int"
   /\ node.alpha.i \notin IntRange(Bits32))
  => /\ res.ret = "failure"
     /\ MulOperandsTyped(res.created)


(***************************************************************************)
(* ConvertAtenCompareOp::matchAndRewrite, registered for the comparisons   *)
(* (gt, lt, eq, ne; Tensor and Scalar) and for the bitwise operators       *)
(* (Tensor only).  self is a tensor for every registered op; an element    *)
(* type "none" stands for one that is neither integer nor floating point.  *)
(***************************************************************************)
BitwiseOps == {"aten.bitwise_and", "aten.bitwise_or", "aten.bitwise_xor"}
CompareOps == {"aten.gt", "aten.lt", "aten.eq", "aten.ne"}

\* INSERT_BINARY_COMPARE_PATTERN(AtenOp, TosaOp)
CompareTosaOp(AtenOpT) ==
  CASE AtenOpT = "aten.gt" -> "tosa.greater"
    [] AtenOpT = "aten.lt" -> "tosa.greater"
    [] AtenOpT = "aten.eq" -> "tosa.equal"
    [] AtenOpT = "aten.ne" -> "tosa.equal"
    [] AtenOpT = "aten.bitwise_and" -> "tosa.bitwise_and"
    [] AtenOpT = "aten.bitwise_or" -> "tosa.bitwise_or"
    [] AtenOpT = "aten.bitwise_xor" -> "tosa.bitwise_xor"

isIntOrFloat(elem) == IsIntegerType(elem) \/ IsFloatType(elem)

\* A variant that keeps the operand order
swapLhsRhs_Never(AtenOpT) == FALSE

\* "There is no Lesser operator in TOSA."
swapLhsRhs(AtenOpT) == AtenOpT = "aten.lt"

\* tosa::promoteType: a tosa.cast to the result's element type when the
\* operand has another one
promoteType(input, inputTy, outElem) ==
  IF inputTy.elem # outElem
  THEN <<Emit("tosa.cast", TensorTy(inputTy.shape, outElem), <<input>>)>>
  ELSE <<>>

ConvertAtenCompareOp(n, rhsCast) ==
  LET lhsTy == n.self
      lhsElemTy == lhsTy.elem
      rhsIsTensor == n.other.isTensor
      isBitwiseOp == n.op \in BitwiseOps
      rhsLift == torchScalarToTosaTensor(n.other.scalar, lhsElemTy, <<>>, rhsCast)
      rhsOps == IF rhsIsTensor THEN <<>> ELSE rhsLift.created
      rhsTensor == IF rhsIsTensor THEN Operand("other") ELSE Result(Len(rhsOps))
      rhsTensorTy == IF rhsIsTensor THEN n.other.ty ELSE TensorTy(<<>>, lhsElemTy)
      resultTy == n.outTy
      lhsCast == IF isBitwiseOp
                 THEN promoteType(Operand("self"), lhsTy, resultTy.elem) ELSE <<>>
      upToLhs == rhsOps \o lhsCast
      lhs == IF lhsCast = <<>> THEN Operand("self") ELSE Result(Len(upToLhs))
      rhsPromoted == IF isBitwiseOp
                     THEN promoteType(rhsTensor, rhsTensorTy, resultTy.elem) ELSE <<>>
      upToRhs == upToLhs \o rhsPromoted
      rhs == IF rhsPromoted = <<>> THEN rhsTensor ELSE Result(Len(upToRhs))
      resultOp == Emit(CompareTosaOp(n.op), resultTy,
                       IF swapLhsRhs(n.op) THEN <<rhs, lhs>> ELSE <<lhs, rhs>>)
      upToResult == upToRhs \o <<resultOp>>
  IN  IF ~isIntOrFloat(lhsElemTy)
      THEN Failure("Only floating-point or integer datatype legalization supported",
                   <<>>)
      ELSE IF IsFloatType(lhsElemTy) /\ isBitwiseOp
      THEN Failure("For bitwise operators, only integer datatype legalization is supported",
                   <<>>)
      ELSE IF ~rhsIsTensor /\ rhsLift.ret = "failure"
      THEN Failure("Currently only scalar constants are supported for conversion in TOSA operation",
                   <<>>)
      ELSE IF n.op = "aten.ne"
      THEN Success(upToResult
                   \o <<Emit("tosa.logical_not", resultTy,
                             <<Result(Len(upToResult))>>)>>,
                   <<resultTy>>, <<>>)
      ELSE Success(upToResult, <<resultTy>>, <<>>)

(***************************************************************************)
(* The value one element takes through tosa.greater, tosa.equal and        *)
(* tosa.logical_not.  A floating-point value is a record (Fin, NaN, PosInf, *)
(* NegInf); a comparison with a NaN is false.                              *)
(***************************************************************************)
FloatGreater(a, b) ==
  CASE a.cls = "nan" \/ b.cls = "nan" -> FALSE
    [] a.cls = "fin" /\ b.cls = "fin" -> a.h > b.h
    [] a.cls = "inf" /\ b.cls = "inf" -> a.h > b.h
    [] a.cls = "inf" /\ b.cls = "fin" -> a.h > 0
    [] a.cls = "fin" /\ b.cls = "inf" -> b.h < 0

tosaGreater(a, b) ==
  IF IsFloatType(a.elem) THEN FloatGreater(a.val, b.val) ELSE a.val > b.val

tosaEqual(a, b) ==
  IF IsFloatType(a.elem) THEN DoubleEq(a.val, b.val) ELSE a.val = b.val

RECURSIVE EvalCompare(_, _, _)
EvalCompare(created, ref, env) ==
  IF ref.src # "op" THEN env[ref.src]
  ELSE LET o == created[ref.idx]
           a == EvalCompare(created, o.attr[1], env)
           b == EvalCompare(created, o.attr[2], env)
       IN  CASE o.op = "tosa.const" -> [val |-> o.attr, elem |-> o.ty.elem]
             [] o.op = "tosa.greater" ->
                  [val |-> tosaGreater(a, b), elem |-> o.ty.elem]
             [] o.op = "tosa.equal" ->
                  [val |-> tosaEqual(a, b), elem |-> o.ty.elem]
             [] o.op = "tosa.logical_not" ->
                  [val |-> ~a.val, elem |-> o.ty.elem]

\* What the source op computes on one element: a > b, a < b, a == b, a != b
\* (a comparison with a NaN is false, except != which is true).
FloatLess(a, b) ==
  /\ a.cls # "nan"
  /\ b.cls # "nan"
  /\ a # b
  /\ \/ a = NegInf
     \/ b = PosInf
     \/ a.cls = "fin" /\ b.cls = "fin" /\ a.h < b.h

AtenCompare(AtenOpT, elem, a, b) ==
  LET less(u, v) == IF IsFloatType(elem) THEN FloatLess(u, v) ELSE u < v
      same == IF IsFloatType(elem) THEN DoubleEq(a, b) ELSE a = b
  IN  CASE AtenOpT = "aten.gt" -> less(b, a)
        [] AtenOpT = "aten.lt" -> less(a, b)
        [] AtenOpT = "aten.eq" -> same
        [] AtenOpT = "aten.ne" -> ~same

\* Element values of each type: the edges of the integer range, and the
\* floating-point classes.  A node holds an element as a record; IntVal
\* wraps an integer.
IntVal(i) == [cls |-> "int", h |-> i]
ElemValue(elem, v) == IF IsFloatType(elem) THEN v ELSE v.h

CompareSamples(elem) ==
  IF IsFloatType(elem)
  THEN {NaN, NegInf, Fin(-2), Fin(0), Fin(1), PosInf}
  ELSE {IntVal(i) : i \in {IntMin(BitsOf(elem)), -1, 0, 1, IntMax(BitsOf(elem))}}

CompareNode(op, selfElem, other, x, y) ==
  [kind |-> "compare", op |-> op, self |-> TensorTy(<<2>>, selfElem),
   other |-> other,
   outTy |-> TensorTy(<<2>>, IF op \in BitwiseOps
                             THEN AtenAddResultElem(selfElem, other) ELSE "i1"),
   x |-> x, y |-> y]

\* The scalar right operands: a value of the left operand's element type,
\* a constant of the other kind, a constant outside the 32-bit range and a
\* value that is not a constant
CompareScalars(elem) ==
  (IF IsFloatType(elem)
   THEN {ConstantFloat(d) : d \in CompareSamples(elem)}
   ELSE {ConstantInt(v.h) : v \in CompareSamples(elem)})
  \cup {ConstantInt(IntMax(Bits64)), ConstantFloat(Fin(3)), NonConstant}

CompareNodes ==
  UNION {{CompareNode(op, e, TensorOperand(TensorTy(<<2>>, e)), x, y) :
            op \in CompareOps, x \in CompareSamples(e), y \in CompareSamples(e)}
         \cup {CompareNode(op, e, ScalarOperand(sc), x, IntVal(0)) :
                 op \in CompareOps, x \in CompareSamples(e),
                 sc \in CompareScalars(e)} :
         e \in {"i32", "i64", "f32"}}
  \cup {CompareNode(op, e, TensorOperand(TensorTy(<<2>>, f)), IntVal(0), IntVal(0)) :
          op \in BitwiseOps, e \in {"i8", "i32", "f32"}, f \in {"i8", "i32"}}
  \cup {CompareNode(op, e, ScalarOperand(ConstantInt(1)), IntVal(0), IntVal(0)) :
          op \in CompareOps, e \in {"i1", "i8", "none"}}

\* Both operands hold values of one numeric type
SameNumericType(n) ==
  \/ n.other.isTensor /\ n.other.ty.elem = n.self.elem
  \/ /\ ~n.other.isTensor
     /\ IF IsFloatType(n.self.elem)
        THEN n.other.scalar.kind = "float"
             /\ DoubleToF32(n.other.scalar.d) = n.other.scalar.d
        ELSE n.other.scalar.kind = "int"
             /\ n.other.scalar.i \in IntRange(BitsOf(n.self.elem))

\* The right operand's element value
CompareRhsValue(n) ==
  IF n.other.isTensor THEN ElemValue(n.self.elem, n.y)
  ELSE IF n.other.scalar.kind = "float" THEN n.other.scalar.d
  ELSE n.other.scalar.i

InitCompare == pc = "ready" /\ node \in CompareNodes /\ res = NoRes

LegalizeCompare ==
  /\ pc = "ready"
  /\ node.kind = "compare"
  /\ \E rhsCast \in CastOutcomes(node.other.scalar, node.self.elem) :
       LET r == ConvertAtenCompareOp(node, rhsCast)
           env == [self |-> [val |-> ElemValue(node.self.elem, node.x),
                             elem |-> node.self.elem],
                   other |-> [val |-> ElemValue(node.self.elem, node.y),
                              elem |-> node.other.ty.elem]]
       IN  res' = IF r.ret = "success" /\ node.op \in CompareOps
                     /\ SameNumericType(node)
                  THEN [r EXCEPT !.info =
                          [value |-> EvalCompare(r.created, Result(Len(r.created)),
                                                 env).val]]
                  ELSE r
  /\ pc' = "done"
  /\ UNCHANGED node

NextCompare == LegalizeCompare

SpecCompare == InitCompare /\ [][NextCompare]_vars

\* C19: comparison rewriting preserves meaning.  For operand values a, b of
\* one numeric type, less-than is emitted as greater(b, a), not-equal as
\* logical-not(equal(a, b)), greater-than and equal with the operands in
\* their order, and the value computed equals a < b, a != b, a > b, a == b;
\* for a tensor and for a lifted scalar right operand.
C19_CompareMeaning ==
  (/\ pc = "done"
   /\ node.kind = "compare"
   /\ node.op \in CompareOps
   /\ SameNumericType(node)
   /\ res.ret = "success")
  => LET n == Len(res.created)
         cmp == IF node.op = "aten.ne" THEN res.created[n - 1] ELSE res.created[n]
         rhs == IF node.other.isTensor THEN Operand("other") ELSE Result(1)
     IN  /\ cmp.op = (IF node.op \in {"aten.gt", "aten.lt"} THEN "tosa.greater"
                      ELSE "tosa.equal")
         /\ cmp.attr = (IF node.op = "aten.lt" THEN <<rhs, Operand("self")>>
                        ELSE <<Operand("self"), rhs>>)
         /\ (node.op = "aten.ne")
            <=> (res.created[n].op = "tosa.logical_not"
                 /\ res.created[n].attr = <<Result(n - 1)>>)
         /\ res.info.value
            = AtenCompare(node.op, node.self.elem,
                          ElemValue(node.self.elem, node.x), CompareRhsValue(node))

\* aten.lt.Scalar of an i32 element 0 against the constant 1 has been
\* rewritten to greater(const, self) and computes true.
C19_Witness ==
  /\ pc = "done"
  /\ node.kind = "compare"
  /\ node.op = "aten.lt"
  /\ node.self.elem = "i32"
  /\ ~node.other.isTensor
  /\ node.other.scalar = ConstantInt(1)
  /\ node.x = IntVal(0)
  /\ res.ret = "success"
  /\ res.created[2].op = "tosa.greater"
  /\ res.created[2].attr = <<Result(1), Operand("self")>>
  /\ res.info.value = TRUE


(***************************************************************************)
(* ConvertAtenOp<AtenViewOp>::matchAndRewrite and                          *)
(* ConvertAtenOp<AtenFlattenUsingIntsOp>::matchAndRewrite                  *)
(***************************************************************************)
ConvertAtenViewOp(n) ==
  LET selfElemTy == n.self.elem
      outShape == n.size.l
  IN  IF ~isIntOrFloat(selfElemTy)
      THEN Failure("Only floating-point or integer datatype legalization supported",
                   <<>>)
      ELSE IF ~m_TorchListOfConstantInts(n.size)
      THEN Failure("size must consist of Scalar constants", <<>>)
      ELSE Success(<<Emit("tosa.reshape", n.outTy, outShape)>>, <<n.outTy>>, outShape)

\* The loop over the dims of self: those from start_dim to end_dim are
\* multiplied into one
RECURSIVE FlattenShape(_, _, _, _)
FlattenShape(shape, idx, start_dim, end_dim) ==
  IF idx >= Len(shape) THEN <<>>
  ELSE LET s == shape[idx + 1]
           rest == FlattenShape(shape, idx + 1, start_dim, end_dim)
       IN  IF idx < start_dim \/ idx > end_dim THEN <<s>> \o rest
           ELSE IF idx = end_dim THEN <<s>> \o rest
           ELSE <<s * rest[1]>> \o SubSeq(rest, 2, Len(rest))

ConvertAtenFlattenUsingIntsOp(n) ==
  LET selfType == n.self
      selfRank == Len(selfType.shape)
      start_dim == toPositiveDim(n.start_dim.i, selfRank)
      end_dim == toPositiveDim(n.end_dim.i, selfRank)
      folded == FlattenShape(makeShapeTorchCompatible(selfType.shape), 0,
                             start_dim, end_dim)
      newShape == IF Len(folded) = 0 THEN <<1>> ELSE folded
      newType == TensorTy(makeShapeLLVMCompatible(newShape), selfType.elem)
  IN  IF ~hasStaticShape(selfType.shape)
      THEN Failure("Only ranked tensor types with static shapes are currently supported",
                   <<>>)
      ELSE IF ~m_TorchConstantInt(n.start_dim)
      THEN Failure("start_dim must be a Scalar constant", <<>>)
      ELSE IF ~m_TorchConstantInt(n.end_dim)
      THEN Failure("end_dim must be a Scalar constant", <<>>)
      ELSE IF selfRank > 0 /\ ~isValidDim(start_dim, selfRank)
      THEN Failure("start_dim is statically invalid", <<>>)
      ELSE IF selfRank > 0 /\ ~isValidDim(end_dim, selfRank)
      THEN Failure("end_dim is statically invalid", <<>>)
      ELSE IF end_dim < start_dim
      THEN Failure("end_dim must be larger than start_dim", <<>>)
      ELSE Success(<<Emit("tosa.reshape", newType, newShape),
                     Emit("tensor.cast", n.outTy, <<>>)>>,
                   <<n.outTy>>, newShape)

ViewNode(selfShape, selfElem, list) ==
  [kind |-> "view", self |-> TensorTy(selfShape, selfElem), size |-> list,
   outTy |-> TensorTy(AtenReshapeResultShape(selfShape, list.l), selfElem)]

ViewNodes ==
  {ViewNode(sh, e, l) : sh \in SmallShapes, e \in {"f32", "none"},
                        l \in ReshapeLists}

FlattenDims == {ConstantInt(d) : d \in -2..2} \cup {NonConstant}

FlattenNode(selfShape, start, end) ==
  [kind |-> "flatten", self |-> TensorTy(selfShape, "f32"),
   start_dim |-> start, end_dim |-> end,
   outTy |-> TensorTy(IF start.kind = "int" /\ end.kind = "int"
                         /\ hasStaticShape(selfShape)
                         /\ toPositiveDim(start.i, Len(selfShape))
                              <= toPositiveDim(end.i, Len(selfShape))
                         /\ (Len(selfShape) = 0
                             \/ /\ isValidDim(toPositiveDim(start.i, Len(selfShape)),
                                              Len(selfShape))
                                /\ isValidDim(toPositiveDim(end.i, Len(selfShape)),
                                              Len(selfShape)))
                      THEN LET f == FlattenShape(selfShape, 0,
                                      toPositiveDim(start.i, Len(selfShape)),
                                      toPositiveDim(end.i, Len(selfShape)))
                           IN  IF f = <<>> THEN <<1>> ELSE f
                      ELSE <<kDynamic>>, "f32")]

FlattenNodes ==
  {FlattenNode(sh, st, en) : sh \in SmallShapes, st \in FlattenDims,
                             en \in FlattenDims}

LegalizeView ==
  /\ pc = "ready"
  /\ node.kind = "view"
  /\ res' = ConvertAtenViewOp(node)
  /\ pc' = "done"
  /\ UNCHANGED node

LegalizeFlatten ==
  /\ pc = "ready"
  /\ node.kind = "flatten"
  /\ res' = ConvertAtenFlattenUsingIntsOp(node)
  /\ pc' = "done"
  /\ UNCHANGED node

InitShapeOps ==
  /\ pc = "ready"
  /\ node \in ReshapeNodes \cup ViewNodes \cup FlattenNodes
  /\ res = NoRes

NextShapeOps == LegalizeReshape \/ LegalizeView \/ LegalizeFlatten

SpecShapeOps == InitShapeOps /\ [][NextShapeOps]_vars

\* The number of -1 placeholders of a list
CountAuto(list) == Cardinality({i \in 1..Len(list) : list[i] = -1})

\* C20: the reshape, view and flatten legalizers succeed only when their
\* target-shape list (for flatten: start_dim and end_dim) is a compile-time
\* constant, and reshape and view both fail whenever the constant
\* target-shape list holds more than one -1 placeholder.
C20_ConstantShapeOperands ==
  (pc = "done" /\ node.kind \in {"reshape", "view", "flatten"})
  => /\ (res.ret = "success" /\ node.kind = "reshape")
        => m_TorchListOfConstantInts(node.shape)
     /\ (res.ret = "success" /\ node.kind = "view")
        => m_TorchListOfConstantInts(node.size)
     /\ (res.ret = "success" /\ node.kind = "flatten")
        => m_TorchConstantInt(node.start_dim) /\ m_TorchConstantInt(node.end_dim)
     /\ (node.kind = "reshape" /\ m_TorchListOfConstantInts(node.shape)
         /\ CountAuto(node.shape.l) > 1)
        => res.ret = "failure"
     /\ (node.kind = "view" /\ m_TorchListOfConstantInts(node.size)
         /\ CountAuto(node.size.l) > 1)
        => res.ret = "failure"


(***************************************************************************)
(* ConvertAtenOp<AtenBroadcastToOp>::matchAndRewrite.  The node carries    *)
(* the ops that use its result; no op is created, the result is replaced   *)
(* by the operand.                                                         *)
(***************************************************************************)
ViewLikeOps == {"aten.view", "aten.expand", "aten.squeeze", "aten.slice.Tensor"}
isViewLikeOp(user) == user \in ViewLikeOps

\* A variant that lets every pair of ranks through
sameRankOrZeroRank_Always(inputShape, outShape) == TRUE

\* inputShape.size() == outShape.size() || inputShape.size() == 0
sameRankOrZeroRank(inputShape, outShape) ==
  Len(inputShape) = Len(outShape) \/ Len(inputShape) = 0

ConvertAtenBroadcastToOp(n) ==
  LET selfType == n.self
      outShape == n.size.l
      inputShape == makeShapeTorchCompatible(selfType.shape)
  IN  IF ~hasStaticShape(selfType.shape)
      THEN Failure("Only tensor types with static shape are supported", <<>>)
      ELSE IF ~isIntOrFloat(selfType.elem)
      THEN Failure("Only floating-point or integer datatype legalization supported",
                   <<>>)
      ELSE IF ~m_TorchListOfConstantInts(n.size)
      THEN Failure("size must consist of Scalar constants", <<>>)
      ELSE IF sameRankOrZeroRank(inputShape, outShape)
      THEN IF inputShape # outShape /\ \E user \in n.users : isViewLikeOp(user)
           THEN Failure("unimplemented: broadcast not supported for this case", <<>>)
           ELSE Success(<<>>, <<selfType>>, "erased")
      ELSE Failure("unimplemented: broadcasts other than same rank or zero ranked tensor.",
                   <<>>)

BroadcastShapeOf(selfShape, list) ==
  [i \in 1..Len(list) |->
     IF list[i] = -1
     THEN (IF i > Len(list) - Len(selfShape)
           THEN selfShape[i - (Len(list) - Len(selfShape))] ELSE kDynamic)
     ELSE list[i]]

BroadcastToNode(selfShape, selfElem, list, users) ==
  [kind |-> "broadcast_to", self |-> TensorTy(selfShape, selfElem), size |-> list,
   users |-> users,
   outTy |-> TensorTy(BroadcastShapeOf(selfShape, list.l), selfElem)]

BroadcastUsers == SUBSET {"aten.view", "aten.add.Tensor"}

BroadcastToNodes ==
  {BroadcastToNode(sh, e, l, u) : sh \in SmallShapes, e \in {"f32", "none"},
                                  l \in ReshapeLists, u \in BroadcastUsers}

InitBroadcastTo == pc = "ready" /\ node \in BroadcastToNodes /\ res = NoRes

LegalizeBroadcastTo ==
  /\ pc = "ready"
  /\ node.kind = "broadcast_to"
  /\ res' = ConvertAtenBroadcastToOp(node)
  /\ pc' = "done"
  /\ UNCHANGED node

NextBroadcastTo == LegalizeBroadcastTo

SpecBroadcastTo == InitBroadcastTo /\ [][NextBroadcastTo]_vars

\* The requested sizes equal the input shape, or no user is view-like
IdentityOrNoViewUser(n) ==
  \/ n.size.l = n.self.shape
  \/ \A user \in n.users : user \notin ViewLikeOps

\* C21 as stated: broadcast-to succeeds only when the requested size list
\* has the rank of the static input and either equals the input shape or
\* differs from it while no user is view-like; for every input, a rank-0
\* input included, a size list of another rank makes the legalization fail.
C21_SameRankOnly ==
  (pc = "done" /\ node.kind = "broadcast_to")
  => /\ res.ret = "success"
        => /\ hasStaticShape(node.self.shape)
           /\ Len(node.size.l) = Len(node.self.shape)
           /\ IdentityOrNoViewUser(node)
     /\ (m_TorchListOfConstantInts(node.size)
         /\ Len(node.size.l) # Len(node.self.shape))
        => res.ret = "failure"

\* C21 (amended): broadcast-to succeeds exactly when the input is static
\* with an integer or float element type, the size list is constant, the
\* list has the input's rank or the input has rank 0, and the list equals
\* the input shape or no user is view-like; it then creates no op and
\* replaces the result by the operand.  A size list of another rank fails
\* for every input of rank above 0.
C21_SameRankOrRankZero ==
  (pc = "done" /\ node.kind = "broadcast_to")
  => /\ res.ret = "success"
        <=> /\ hasStaticShape(node.self.shape)
            /\ node.self.elem # "none"
            /\ m_TorchListOfConstantInts(node.size)
            /\ Len(node.size.l) = Len(node.self.shape) \/ Len(node.self.shape) = 0
            /\ IdentityOrNoViewUser(node)
     /\ res.ret = "success" => res.created = <<>> /\ res.repl = <<node.self>>
     /\ (Len(node.size.l) # Len(node.self.shape) /\ Len(node.self.shape) > 0)
        => res.ret = "failure"

\* A rank-0 input broadcast to [2, 3] has been accepted.
C21_Witness ==
  /\ pc = "done"
  /\ node.kind = "broadcast_to"
  /\ node.self = TensorTy(<<>>, "f32")
  /\ node.size = ConstantIntList(<<2, 3>>)
  /\ node.users = {"aten.add.Tensor"}
  /\ res.ret = "success"
  /\ res.created = <<>>


(***************************************************************************)
(* ConvertAtenOp<AtenConvolutionOp>::matchAndRewrite.  "qi8" stands for a  *)
(* quantized element type.  The stride, padding and dilation lists hold    *)
(* two entries each, as a 2-D convolution has.                             *)
(***************************************************************************)
\* int64_t division: the quotient is truncated toward zero
CppDiv(a, b) == IF (a >= 0) = (b > 0) THEN Abs(a) \div Abs(b) ELSE -(Abs(a) \div Abs(b))

IsQuantizedType(elem) == elem = "qi8"

\* A variant that leaves the dilation out
convOutputDim_NoDilation(inDim, padBefore, padAfter, dilation, kernel, stride) ==
  CppDiv(inDim + padBefore + padAfter - (kernel - 1) - 1, stride) + 1

\* outputHDim / outputWDim of a static input
convOutputDim(inDim, padBefore, padAfter, dilation, kernel, stride) ==
  CppDiv(inDim + padBefore + padAfter - dilation * (kernel - 1) - 1, stride) + 1

ConvertAtenConvolutionOp(n) ==
  LET inputTy == n.input
      weightTy == n.weight
      inputElemTy == inputTy.elem
      inputShape == makeShapeTorchCompatible(inputTy.shape)
      weightShape == makeShapeTorchCompatible(weightTy.shape)
      biasOps == IF n.bias.kind = "none"
                 THEN <<Emit("tosa.const",
                             TensorTy(<<weightShape[1]>>,
                                      IF IsQuantizedType(inputElemTy) THEN "i32"
                                      ELSE "f32"), 0)>>
                 ELSE <<>>
      biasElemTy == IF IsFloatType(inputElemTy) THEN inputElemTy ELSE "i32"
      stride == n.stride.l
      padding_2d == n.padding.l
      padding == <<padding_2d[1], padding_2d[1], padding_2d[2], padding_2d[2]>>
      dilation == n.dilation.l
      transposedInputShape == <<inputShape[1], inputShape[3], inputShape[4],
                                inputShape[2]>>
      transposedInputType == TensorTy(makeShapeLLVMCompatible(transposedInputShape),
                                      inputElemTy)
      transposedWeightShape == <<weightShape[1], weightShape[3], weightShape[4],
                                 weightShape[2]>>
      transposedWeightType == TensorTy(makeShapeLLVMCompatible(transposedWeightShape),
                                       weightTy.elem)
      outputHDim == IF hasStaticShape(inputTy.shape)
                    THEN convOutputDim(transposedInputShape[2], padding[1], padding[2],
                                       dilation[1], transposedWeightShape[2], stride[1])
                    ELSE kUnknownSize
      outputWDim == IF hasStaticShape(inputTy.shape)
                    THEN convOutputDim(transposedInputShape[3], padding[3], padding[4],
                                       dilation[2], transposedWeightShape[3], stride[2])
                    ELSE kUnknownSize
      outputShape == <<transposedInputShape[1], outputHDim, outputWDim,
                       transposedWeightShape[1]>>
      convOpTy == TensorTy(makeShapeLLVMCompatible(outputShape), biasElemTy)
      transposedOutputShape == <<outputShape[1], outputShape[4], outputShape[2],
                                 outputShape[3]>>
      transposedOutputType == TensorTy(makeShapeLLVMCompatible(transposedOutputShape),
                                       biasElemTy)
      rescale == IF IsQuantizedType(inputElemTy)
                 THEN <<Emit("tosa.rescale",
                             TensorTy(transposedOutputType.shape, n.outTy.elem), <<>>)>>
                 ELSE <<>>
  IN  IF Len(inputTy.shape) # 4
      THEN Failure("Unimplemented: only 2D convolutions supported", <<>>)
      ELSE IF ~hasStaticShape(weightTy.shape)
      THEN Failure("Unimplemented: TOSA only supports static weight", <<>>)
      ELSE IF ~m_TorchListOfConstantInts(n.stride)
      THEN Failure("non-const stride list unsupported", biasOps)
      ELSE IF ~m_TorchListOfConstantInts(n.padding)
      THEN Failure("non-const padding list unsupported", biasOps)
      ELSE IF ~m_TorchListOfConstantInts(n.dilation)
      THEN Failure("non-const dilation list unsupported", biasOps)
      ELSE Success(biasOps
                   \o <<Emit("tosa.const", TensorTy(<<4>>, "i32"), <<0, 2, 3, 1>>),
                        Emit("tosa.transpose", transposedInputType, <<0, 2, 3, 1>>),
                        Emit("tosa.transpose", transposedWeightType, <<0, 2, 3, 1>>),
                        Emit("tosa.conv2d", convOpTy,
                             [pad |-> padding, stride |-> stride,
                              dilation |-> dilation]),
                        Emit("tosa.const", TensorTy(<<4>>, "i32"), <<0, 3, 1, 2>>),
                        Emit("tosa.transpose", transposedOutputType, <<0, 3, 1, 2>>)>>
                   \o rescale
                   \o <<Emit("tensor.cast", n.outTy, <<>>)>>,
                   <<n.outTy>>, outputShape)

\* The output size aten.convolution defines on one spatial axis
AtenConvOutputDim(inDim, pad, dilation, kernel, stride) ==
  ((inDim + 2 * pad - dilation * (kernel - 1) - 1) \div stride) + 1

\* The dilated kernel fits into the padded input on both axes, which
\* aten.convolution requires of its operands
ValidConvolution(inputShape, weightShape, stride, padding, dilation) ==
  (Len(inputShape) = 4 /\ hasStaticShape(inputShape) /\ hasStaticShape(weightShape)
   /\ stride.kind = "intlist" /\ padding.kind = "intlist" /\ dilation.kind = "intlist")
  => \A a \in 1..2 :
       inputShape[a + 2] + 2 * padding.l[a]
         >= dilation.l[a] * (weightShape[a + 2] - 1) + 1

ConvolutionNode(inputShape, elem, weightShape, bias, stride, padding, dilation) ==
  [kind |-> "convolution", input |-> TensorTy(inputShape, elem),
   weight |-> TensorTy(weightShape, elem), bias |-> bias,
   stride |-> stride, padding |-> padding, dilation |-> dilation,
   outTy |-> TensorTy(
     IF Len(inputShape) = 4 /\ hasStaticShape(inputShape)
        /\ hasStaticShape(weightShape)
        /\ stride.kind = "intlist" /\ padding.kind = "intlist"
        /\ dilation.kind = "intlist"
     THEN <<inputShape[1], weightShape[1],
            AtenConvOutputDim(inputShape[3], padding.l[1], dilation.l[1],
                              weightShape[3], stride.l[1]),
            AtenConvOutputDim(inputShape[4], padding.l[2], dilation.l[2],
                              weightShape[4], stride.l[2])>>
     ELSE <<kDynamic, kDynamic, kDynamic, kDynamic>>, elem)]

ConvInputShapes ==
  {<<n, 2, h, w>> : n \in {1, kDynamic}, h \in {4, 5, kDynamic}, w \in {4, 5}}
  \cup {<<2, 4, 5>>}
ConvWeightShapes ==
  {<<3, 2, kh, kw>> : kh \in {1, 2, 3}, kw \in {1, 3}} \cup {<<3, 2, kDynamic, 3>>}
ConvStrides == {ConstantIntList(<<1, 1>>), ConstantIntList(<<2, 1>>),
                ConstantIntList(<<2, 3>>), NonConstantList}
ConvPaddings == {ConstantIntList(<<0, 0>>), ConstantIntList(<<1, 0>>),
                 ConstantIntList(<<1, 2>>), NonConstantList}
ConvDilations == {ConstantIntList(<<1, 1>>), ConstantIntList(<<2, 1>>),
                  NonConstantList}

ConvolutionNodes ==
  {n \in {ConvolutionNode(i, e, w, b, st, pd, dl) :
            i \in ConvInputShapes, e \in {"f32", "qi8"}, w \in ConvWeightShapes,
            b \in {[kind |-> "none"], [kind |-> "tensor"]},
            st \in ConvStrides, pd \in ConvPaddings, dl \in ConvDilations} :
     ValidConvolution(n.input.shape, n.weight.shape, n.stride, n.padding, n.dilation)}

InitConvolution == pc = "ready" /\ node \in ConvolutionNodes /\ res = NoRes

LegalizeConvolution ==
  /\ pc = "ready"
  /\ node.kind = "convolution"
  /\ res' = ConvertAtenConvolutionOp(node)
  /\ pc' = "done"
  /\ UNCHANGED node

NextConvolution == LegalizeConvolution

SpecConvolution == InitConvolution /\ [][NextConvolution]_vars

\* The one op of a name among the ops created
TheOp(created, name) ==
  created[CHOOSE i \in 1..Len(created) : created[i].op = name]

C23_TrainingRejected ==
  (pc = "done" /\ node.kind = "batchnorm" /\ res.ret = "success")
  => m_TorchConstantBool(node.training) /\ node.training.i = 0


\* C24: argmax with a constant dim d in [-rank, rank) creates exactly one
\* argmax primitive, on axis d mod rank, whose result shape is the input
\* shape with that axis removed (keepdim false) or set to 1 (keepdim true),
\* for negative d as well, d = -1 included; the all-dimensions chain is used
\* only when dim is None.
C24_ArgmaxConstantDim ==
  (/\ pc = "done"
   /\ node.kind = "argmax"
   /\ m_TorchConstantBool(node.keepdim)
   /\ m_TorchConstantInt(node.dim)
   /\ node.dim.i >= -Len(node.self.shape)
   /\ node.dim.i < Len(node.self.shape))
  => LET rank == Len(node.self.shape)
         axis == node.dim.i % rank
     IN  /\ res.ret = "success"
         /\ CountOps(res.created, "tosa.argmax") = 1
         /\ res.created[1].op = "tosa.argmax"
         /\ res.created[1].attr = axis
         /\ res.created[1].ty.shape
            = (IF node.keepdim.i = 1 THEN [node.self.shape EXCEPT ![axis + 1] = 1]
               ELSE RemoveAt(node.self.shape, axis + 1))


\* A size list holds an unknown size
HasUnknown(shape) == \E i \in 1..Len(shape) : shape[i] = kUnknownSize

\* C25: every target shape performMatmul passes to a reshape primitive
\* holds only non-negative sizes or the unknown sentinel; a collapsed size
\* is the unknown sentinel whenever one of its factors is unknown (never
\* another negative number, never a positive product of sentinels), for
\* unknown batch, M, K or N dimensions; and with all dimensions static the
\* product of the target shape is the element count of the reshaped value.
C25_ReshapeTargets ==
  (pc = "done" /\ node.kind = "matmul" /\ res.ret = "success")
  => LET info == res.info
         lhsB == info.lhsBroadcastedShape
         rhsB == info.rhsBroadcastedShape
     IN  /\ \A i \in 1..Len(info.created) :
              info.created[i].op = "tosa.reshape"
              => \A j \in 1..Len(info.created[i].attr) :
                   \/ info.created[i].attr[j] >= 0
                   \/ info.created[i].attr[j] = kUnknownSize
         /\ info.performBatchDimBroadcast
            => /\ HasUnknown(ElemShapes(info.commonElems))
                  => info.newLhsShape[1] = kUnknownSize
                     /\ info.newRhsShape[1] = kUnknownSize
               /\ HasUnknown(ElemShapes(info.lhsSqueezedElems))
                  => info.newLhsShape[2] = kUnknownSize
               /\ HasUnknown(ElemShapes(info.rhsSqueezedElems))
                  => info.newRhsShape[3] = kUnknownSize
               /\ (~HasUnknown(lhsB) /\ ~HasUnknown(rhsB))
                  => /\ Prod(info.newLhsShape) = Prod(lhsB)
                     /\ Prod(info.newRhsShape) = Prod(rhsB)


(***************************************************************************)
(* ConvertAtenPoolingBaseOp (getOutputDim, transposeTensor and the two     *)
(* layout transposes, matchAndRewrite) and                                 *)
(* ConvertAtenAdaptivePoolingOp::processInputs.                            *)
(***************************************************************************)
PoolMaxIn == 4

getOutputDim(inputDim, kernelDim, stride, padBefore, padAfter, dilation) ==
  IF inputDim = kUnknownSize THEN kUnknownSize
  ELSE CppDiv(inputDim + padBefore + padAfter - dilation * (kernelDim - 1) - 1,
              stride) + 1

\* A variant in which input dim i goes to result dim transposeDims[i]
transposeTensor_Scatter(inputTy, transposeDims) ==
  LET inputShape == makeShapeTorchCompatible(inputTy.shape)
      transposedInputShape ==
        [i \in 1..Len(transposeDims) |->
           inputShape[CHOOSE j \in 1..Len(transposeDims) : transposeDims[j] + 1 = i]]
      transposedInputType ==
        TensorTy(makeShapeLLVMCompatible(transposedInputShape), inputTy.elem)
  IN  <<Emit("tosa.const", TensorTy(<<Len(inputTy.shape)>>, "i32"), transposeDims),
        Emit("tosa.transpose", transposedInputType, transposeDims)>>

\* Apply the transposeDims vector on input to generate a transposed form.
transposeTensor(inputTy, transposeDims) ==
  LET inputShape == makeShapeTorchCompatible(inputTy.shape)
      transposedInputShape ==
        [i \in 1..Len(transposeDims) |-> inputShape[transposeDims[i] + 1]]
      transposedInputType ==
        TensorTy(makeShapeLLVMCompatible(transposedInputShape), inputTy.elem)
  IN  <<Emit("tosa.const", TensorTy(<<Len(inputTy.shape)>>, "i32"), transposeDims),
        Emit("tosa.transpose", transposedInputType, transposeDims)>>

nchwToNhwc4DTransposeDims == <<0, 2, 3, 1>>
chwToHwc3DTransposeDims == <<1, 2, 0>>
nhwcToNchw4DTransposeDims == <<0, 3, 1, 2>>
hwcToChw3DTransposeDims == <<2, 0, 1>>

transposePoolingInputToHwc(inputTy) ==
  transposeTensor(inputTy, IF Len(inputTy.shape) = 3 THEN chwToHwc3DTransposeDims
                           ELSE nchwToNhwc4DTransposeDims)

transposePoolingOutputToChw(inputTy) ==
  transposeTensor(inputTy, IF Len(inputTy.shape) = 3 THEN hwcToChw3DTransposeDims
                           ELSE nhwcToNchw4DTransposeDims)

\* A variant that rounds the stride up
adaptiveStride_Ceil(inputDim, outputDim) ==
  CppDiv(inputDim + outputDim - 1, outputDim)

\* stride = inputDim // outputDim
adaptiveStride(inputDim, outputDim) == CppDiv(inputDim, outputDim)

AdaptivePooling_processInputs(n) ==
  LET inputTy == n.self
      inputShape == makeShapeTorchCompatible(inputTy.shape)
      inputRank == Len(inputTy.shape)
      inputHDim == inputShape[inputRank - 1]
      inputWDim == inputShape[inputRank]
      outputSize == n.output_size.l
      outputHDim == IF Len(outputSize) = 1 THEN outputSize[1]
                    ELSE IF outputSize[1] <= 0 THEN inputHDim ELSE outputSize[1]
      outputWDim == IF Len(outputSize) = 1 THEN outputSize[1]
                    ELSE IF outputSize[2] <= 0 THEN inputWDim ELSE outputSize[2]
      strideH == adaptiveStride(inputHDim, outputHDim)
      strideW == adaptiveStride(inputWDim, outputWDim)
      kernelDims == <<inputHDim - (outputHDim - 1) * strideH,
                      inputWDim - (outputWDim - 1) * strideW>>
      outputShape == (IF inputRank > 3 THEN <<inputShape[1]>> ELSE <<>>)
                     \o <<outputHDim, outputWDim, inputShape[inputRank - 2]>>
      inputOps == transposePoolingInputToHwc(inputTy)
  IN  IF inputRank # 4 /\ inputRank # 3
      THEN [ok |-> FALSE, reason |-> "NCHW->NHWC transpose requires 3D or 4D tensor",
            ops |-> <<>>]
      ELSE IF ~m_TorchListOfConstantInts(n.output_size)
      THEN [ok |-> FALSE,
            reason |-> "Non-const output_size for adaptive pooling unsupported.",
            ops |-> <<>>]
      ELSE IF Len(outputSize) # 1 /\ Len(outputSize) # 2
      THEN [ok |-> FALSE,
            reason |-> "Adaptive avgpool output_size not 1 or 2 elements.",
            ops |-> <<>>]
      ELSE [ok |-> TRUE, reason |-> "", ops |-> inputOps,
            kernel |-> kernelDims, stride |-> <<strideH, strideW>>,
            pad |-> <<0, 0, 0, 0>>,
            outputTy |-> TensorTy(makeShapeLLVMCompatible(outputShape), inputTy.elem)]

ConvertAtenAdaptivePoolingOp(n) ==
  LET in == AdaptivePooling_processInputs(n)
      pooledOutput == Emit("tosa.avg_pool2d", in.outputTy,
                           [kernel |-> in.kernel, stride |-> in.stride,
                            pad |-> in.pad])
  IN  IF ~in.ok
      THEN Failure("Failed to process inputs for pooling", in.ops)
      ELSE Success(in.ops \o <<pooledOutput>>
                   \o transposePoolingOutputToChw(in.outputTy)
                   \o <<Emit("tensor.cast", n.outTy, <<>>)>>,
                   <<n.outTy>>, <<>>)

AdaptivePoolNode(shape, list) ==
  [kind |-> "adaptive_pool", self |-> TensorTy(shape, "f32"), output_size |-> list,
   outTy |-> TensorTy([i \in 1..Len(shape) |->
                         IF i > Len(shape) - 2 /\ list.kind = "intlist"
                            /\ Len(list.l) \in {1, 2}
                         THEN (LET v == list.l[IF Len(list.l) = 1 THEN 1
                                               ELSE i - (Len(shape) - 2)]
                               IN  IF v <= 0 THEN shape[i] ELSE v)
                         ELSE shape[i]], "f32")]

PoolDims == (1..PoolMaxIn) \cup {kDynamic}

\* A one-entry output_size is positive: the code divides by it
AdaptivePoolNodes ==
  {AdaptivePoolNode(pre \o <<h, w>>, l) :
     pre \in {<<2>>, <<1, 2>>}, h \in PoolDims, w \in PoolDims,
     l \in {ConstantIntList(<<o>>) : o \in 1..PoolMaxIn}
           \cup {ConstantIntList(<<oh, ow>>) : oh \in 0..PoolMaxIn, ow \in 0..PoolMaxIn}
           \cup {ConstantIntList(<<1, 1, 1>>), NonConstantList}}
  \cup {AdaptivePoolNode(<<3, 4>>, ConstantIntList(<<1>>))}

InitAdaptivePool == pc = "ready" /\ node \in AdaptivePoolNodes /\ res = NoRes

LegalizeAdaptivePool ==
  /\ pc = "ready"
  /\ node.kind = "adaptive_pool"
  /\ res' = ConvertAtenAdaptivePoolingOp(node)
  /\ pc' = "done"
  /\ UNCHANGED node

NextAdaptivePool == LegalizeAdaptivePool

SpecAdaptivePool == InitAdaptivePool /\ [][NextAdaptivePool]_vars

\* The input size and the requested output size on spatial axis a (1: H, 2: W)
SpatialIn(n, a) == n.self.shape[Len(n.self.shape) - 2 + a]
RequestedOut(n, a) ==
  n.output_size.l[IF Len(n.output_size.l) = 1 THEN 1 ELSE a]

\* C26: for static input spatial sizes and every requested output size
\* with 1 <= out <= in on each axis, the inferred stride = in div out and
\* kernel = in - (out-1)*stride satisfy stride >= 1 and 1 <= kernel <= in,
\* and the windowed-pool output formula (in - kernel) div stride + 1 gives
\* the requested out, so the declared output type agrees with the
\* primitive's own size computation; no stride or kernel below 1 is emitted.
C26_AdaptiveParameters ==
  (/\ pc = "done"
   /\ node.kind = "adaptive_pool"
   /\ Len(node.self.shape) \in {3, 4}
   /\ m_TorchListOfConstantInts(node.output_size)
   /\ Len(node.output_size.l) \in {1, 2}
   /\ \A a \in 1..2 : /\ SpatialIn(node, a) # kDynamic
                      /\ RequestedOut(node, a) >= 1
                      /\ RequestedOut(node, a) <= SpatialIn(node, a))
  => /\ res.ret = "success"
     /\ LET pool == TheOp(res.created, "tosa.avg_pool2d")
            rank == Len(node.self.shape)
        IN  \A a \in 1..2 :
              LET in == SpatialIn(node, a)
                  out == RequestedOut(node, a)
                  stride == pool.attr.stride[a]
                  kernel == pool.attr.kernel[a]
              IN  /\ stride = in \div out
                  /\ kernel = in - (out - 1) * stride
                  /\ stride >= 1
                  /\ kernel >= 1
                  /\ kernel <= in
                  /\ ((in - kernel) \div stride) + 1 = out
                  /\ getOutputDim(in, kernel, stride, 0, 0, 1) = out
                  /\ pool.ty.shape[rank - 3 + a] = out

\* A [2,4,3] input pooled to [3,2]: stride [1,1] and kernel [2,2].
C26_Witness ==
  /\ pc = "done"
  /\ node.kind = "adaptive_pool"
  /\ node.self.shape = <<2, 4, 3>>
  /\ node.output_size = ConstantIntList(<<3, 2>>)
  /\ res.ret = "success"
  /\ TheOp(res.created, "tosa.avg_pool2d").attr.stride = <<1, 1>>
  /\ TheOp(res.created, "tosa.avg_pool2d").attr.kernel = <<2, 2>>
  /\ TheOp(res.created, "tosa.avg_pool2d").ty.shape = <<3, 2, 2>>

(***************************************************************************)
(* The layout changes of the convolution and pooling legalizers            *)
(***************************************************************************)
InitLayout ==
  /\ pc = "ready"
  /\ node \in ConvolutionNodes \cup AdaptivePoolNodes
  /\ res = NoRes

NextLayout ==
  \/ LegalizeConvolution
  \/ LegalizeAdaptivePool

SpecLayout == InitLayout /\ [][NextLayout]_vars

\* tosa.transpose: result dim i is input dim perms[i]
TransposedShape(shape, perms) == [i \in 1..Len(perms) |-> shape[perms[i] + 1]]

\* Applying first and then second puts every dim back in its place
MutuallyInverse(first, second) ==
  /\ Len(first) = Len(second)
  /\ IsPermutation(first, Len(first))
  /\ IsPermutation(second, Len(second))
  /\ \A i \in 1..Len(first) : first[second[i] + 1] = i - 1
  /\ \A i \in 1..Len(first) : second[first[i] + 1] = i - 1

Transposes(created) == SelectSeq(created, LAMBDA o : o.op = "tosa.transpose")

\* The op a transpose is applied to in the pooling legalizer
PooledOp(created) == TheOp(created, "tosa.avg_pool2d")

LayoutInputTy == IF node.kind = "convolution" THEN node.input ELSE node.self

\* C29: the channel-first to channel-last permutation applied to the input
\* and the channel-last to channel-first permutation applied to the result
\* are mutually inverse: [0,2,3,1] then [0,3,1,2] for convolution and for
\* pooling at rank 4, [1,2,0] then [2,0,1] for pooling at rank 3; applying
\* both to any shape restores its dimension order, and the type
\* transposeTensor gives the transpose has, at result dim i, the input size
\* at perm[i].
C29_LayoutRoundTrip ==
  (pc = "done" /\ res.ret = "success")
  => LET ts == Transposes(res.created)
         toHwc == ts[1]
         toChw == ts[Len(ts)]
         inShape == LayoutInputTy.shape
         rank == Len(inShape)
     IN  /\ toHwc.attr = (IF rank = 3 THEN <<1, 2, 0>> ELSE <<0, 2, 3, 1>>)
         /\ toChw.attr = (IF rank = 3 THEN <<2, 0, 1>> ELSE <<0, 3, 1, 2>>)
         /\ MutuallyInverse(toHwc.attr, toChw.attr)
         /\ TransposedShape(TransposedShape(inShape, toHwc.attr), toChw.attr) = inShape
         /\ toHwc.ty.shape = TransposedShape(inShape, toHwc.attr)
         /\ node.kind = "adaptive_pool"
            => toChw.ty.shape
               = TransposedShape(PooledOp(res.created).ty.shape, toChw.attr)
         /\ node.kind = "convolution"
            => toChw.ty.shape
               = TransposedShape(TheOp(res.created, "tosa.conv2d").ty.shape,
                                 toChw.attr)

\* A [2,4,3] input pooled to [3,2]: the input goes to [4,3,2], the pooled
\* [3,2,2] back to [2,3,2].
C29_Witness ==
  /\ pc = "done"
  /\ node.kind = "adaptive_pool"
  /\ node.self.shape = <<2, 4, 3>>
  /\ node.output_size = ConstantIntList(<<3, 2>>)
  /\ res.ret = "success"
  /\ Transposes(res.created)[1].attr = <<1, 2, 0>>
  /\ Transposes(res.created)[1].ty.shape = <<4, 3, 2>>
  /\ Transposes(res.created)[2].attr = <<2, 0, 1>>
  /\ Transposes(res.created)[2].ty.shape = <<2, 3, 2>>


(***************************************************************************)
(* ConvertAtenOp<AtenSliceTensorOp>::matchAndRewrite                       *)
(***************************************************************************)
ConvertAtenSliceTensorOp(n) ==
  LET selfType == n.self
      rank == Len(selfType.shape)
      dim == toPositiveDim(n.dim.i, rank)
      start == n.start.i
      end == n.end.i
      step == n.step.i
      startSlice == [[i \in 1..rank |-> 0] EXCEPT ![dim + 1] = start]
      sizeSlice == [makeShapeTorchCompatible(selfType.shape)
                      EXCEPT ![dim + 1] = end - start]
  IN  IF ~hasStaticShape(selfType.shape)
      THEN Failure("Only tensor types with static shape are supported", <<>>)
      ELSE IF ~m_TorchConstantInt(n.dim)
      THEN Failure("dim must be a Scalar constant", <<>>)
      ELSE IF ~isValidDim(dim, rank)
      THEN Failure("dim must less than tensor rank", <<>>)
      ELSE IF ~m_TorchConstantInt(n.start)
      THEN Failure("start must be a Scalar constant", <<>>)
      ELSE IF start < 0
      THEN Failure("Currently unsupported: start < 0", <<>>)
      ELSE IF ~m_TorchConstantInt(n.end)
      THEN Failure("end must be a Scalar constant", <<>>)
      ELSE IF end < start
      THEN Failure("Currently unsupported: end < start", <<>>)
      ELSE IF ~m_TorchConstantInt(n.step)
      THEN Failure("step must be a Scalar constant", <<>>)
      ELSE IF step # 1
      THEN Failure("step value other than 1 is currently unsupported", <<>>)
      ELSE Success(<<Emit("tosa.slice", n.outTy,
                          [start |-> startSlice, size |-> sizeSlice])>>,
                   <<n.outTy>>, dim)

\* The result shape aten.slice.Tensor declares: start and end are clamped
\* to the dimension
Min(a, b) == IF a < b THEN a ELSE b

AtenSliceResultShape(shape, dim, start, end) ==
  LET rank == Len(shape)
      d == IF dim.kind = "int" THEN toPositiveDim(dim.i, rank) ELSE -1
  IN  IF d \in 0..(rank - 1) /\ start.kind = "int" /\ end.kind = "int"
         /\ shape[d + 1] # kDynamic
      THEN LET size == shape[d + 1]
               st == Min(Max(IF start.i < 0 THEN start.i + size ELSE start.i, 0), size)
               en == Min(Max(IF end.i < 0 THEN end.i + size ELSE end.i, st), size)
           IN  [shape EXCEPT ![d + 1] = en - st]
      ELSE [i \in 1..rank |-> IF i = d + 1 THEN kDynamic ELSE shape[i]]

SliceNode(shape, dim, start, end, step) ==
  [kind |-> "slice", self |-> TensorTy(shape, "f32"), dim |-> dim,
   start |-> start, end |-> end, step |-> step,
   outTy |-> TensorTy(AtenSliceResultShape(shape, dim, start, end), "f32")]

SliceNodes ==
  {SliceNode(sh, dm, st, en, sp) :
     sh \in SmallShapes,
     dm \in {ConstantInt(i) : i \in -2..2} \cup {NonConstant},
     st \in {ConstantInt(i) : i \in -1..3} \cup {NonConstant},
     en \in {ConstantInt(i) : i \in {-1, 0, 1, 2, 3, 7}} \cup {NonConstant},
     sp \in {ConstantInt(1), ConstantInt(2), NonConstant}}

InitSlice == pc = "ready" /\ node \in SliceNodes /\ res = NoRes

LegalizeSlice ==
  /\ pc = "ready"
  /\ node.kind = "slice"
  /\ res' = ConvertAtenSliceTensorOp(node)
  /\ pc' = "done"
  /\ UNCHANGED node

NextSlice == LegalizeSlice

SpecSlice == InitSlice /\ [][NextSlice]_vars

\* C27: whenever the slice legalizer succeeds, the slice stays inside the
\* static input: on the sliced axis 0 <= start and
\* start + size <= inputShape[dim] with size = end - start >= 0, on every
\* other axis start is 0 and size is the full input size; for every
\* constant end, an end larger than the dimension size included.
C27_SliceInBounds ==
  (pc = "done" /\ node.kind = "slice" /\ res.ret = "success")
  => LET sl == res.created[1].attr
         inputShape == node.self.shape
         dim == toPositiveDim(node.dim.i, Len(inputShape))
     IN  /\ res.created[1].op = "tosa.slice"
         /\ \A i \in 1..Len(inputShape) :
              IF i = dim + 1
              THEN /\ sl.start[i] >= 0
                   /\ sl.size[i] = node.end.i - node.start.i
                   /\ sl.size[i] >= 0
                   /\ sl.start[i] + sl.size[i] <= inputShape[i]
              ELSE sl.start[i] = 0 /\ sl.size[i] = inputShape[i]


(***************************************************************************)
(* ConvertAtenOp<AtenRsubScalarOp>::matchAndRewrite                        *)
(***************************************************************************)
ConvertAtenRsubScalarOp(n, otherCast, alphaCast) ==
  LET selfTy == n.self
      other == torchScalarToTosaTensor(n.other, selfTy.elem, <<>>, otherCast)
      alpha == torchAlphaToTosaTensor(n.alpha, selfTy.elem, TRUE, alphaCast)
      outTy == n.outTy
      nOther == Len(other.created)
      nAlpha == Len(alpha.created)
      multTensor == Emit("tosa.mul", outTy, <<Operand("self"), Result(nOther + nAlpha)>>)
  IN  IF ~IsFloatType(selfTy.elem)
      THEN Failure("Only floating-point datatype legalization supported", <<>>)
      ELSE IF other.ret = "failure"
      THEN Failure("Currently only scalar constants are supported for conversion in TOSA Rsub operation",
                   <<>>)
      ELSE IF alpha.ret = "failure"
      THEN Failure(alpha.reason, other.created)
      ELSE Success(other.created \o alpha.created
                   \o <<multTensor,
                        Emit("tosa.sub", outTy,
                             <<Result(nOther), Result(nOther + nAlpha + 1)>>)>>,
                   <<outTy>>, <<>>)

RsubNode(selfElem, other, alpha) ==
  [kind |-> "rsub", self |-> TensorTy(<<2>>, selfElem), other |-> other,
   alpha |-> alpha, outTy |-> TensorTy(<<2>>, selfElem)]

RsubOthers == {ConstantInt(3), ConstantFloat(Fin(5)), NonConstant}

RsubNodes ==
  {RsubNode(e, o, al) :
     e \in {"f32", "i32", "i64"}, o \in RsubOthers, al \in ScalarOperands}

InitRsub == pc = "ready" /\ node \in RsubNodes /\ res = NoRes

LegalizeRsub ==
  /\ pc = "ready"
  /\ node.kind = "rsub"
  /\ \E otherCast \in CastOutcomes(node.other, node.self.elem) :
       \E alphaCast \in CastOutcomes(node.alpha, node.self.elem) :
         res' = ConvertAtenRsubScalarOp(node, otherCast, alphaCast)
  /\ pc' = "done"
  /\ UNCHANGED node

NextRsub == LegalizeRsub

SpecRsub == InitRsub /\ [][NextRsub]_vars

\* The f32 constant a compile-time scalar is materialised as
ScalarAsF32(sc) ==
  DoubleToF32(IF sc.kind = "float" THEN sc.d ELSE IntToDouble(sc.i))

\* C30: rsub on a float tensor with a constant other accepts every
\* compile-time constant alpha, integer or float, of any value, and emits
\* other - alpha * self; the unity check never rejects a constant alpha, and
\* the only failure that is due to alpha is that of a non-constant alpha.
C30_RsubAlpha ==
  (pc = "done" /\ node.kind = "rsub" /\ IsFloatType(node.self.elem)
   /\ node.other.kind \in {"int", "float"})
  => /\ res.ret = "failure"
        <=> ~(m_TorchConstantInt(node.alpha) \/ m_TorchConstantFloat(node.alpha))
     /\ res.ret = "failure"
        => res.reason
           = "Currently only scalar constants are supported for alpha in TOSA operation"
     /\ res.ret = "success"
        => /\ Len(res.created) = 4
           /\ res.created[1] = Emit("tosa.const", TensorTy(<<>>, "f32"),
                                    ScalarAsF32(node.other))
           /\ res.created[2] = Emit("tosa.const", TensorTy(<<>>, "f32"),
                                    ScalarAsF32(node.alpha))
           /\ res.created[3] = Emit("tosa.mul", node.outTy,
                                    <<Operand("self"), Result(2)>>)
           /\ res.created[4] = Emit("tosa.sub", node.outTy, <<Result(1), Result(3)>>)

\* rsub of an f32 tensor from 3 with the integer alpha 2: 3 - 2 * self.
C30_Witness ==
  /\ pc = "done"
  /\ node.kind = "rsub"
  /\ node.self.elem = "f32"
  /\ node.other = ConstantInt(3)
  /\ node.alpha = ConstantInt(2)
  /\ res.ret = "success"
  /\ res.created[2].attr = DoubleToF32(IntToDouble(2))
  /\ res.created[4].op = "tosa.sub"
  /\ res.created[4].attr = <<Result(1), Result(3)>>


(***************************************************************************)
(* applyPartialConversion as a worklist: the ops of the function are       *)
(* visited in any order.  An op the target declares legal, or one it does  *)
(* not know, is left alone; an illegal op whose pattern succeeds is        *)
(* replaced by the ops the pattern created, which are visited in turn; an  *)
(* illegal op that cannot be legalized fails the conversion, which rolls   *)
(* the function back.                                                      *)
(***************************************************************************)
\* Ops whose pattern succeeds, ops whose pattern fails, an op without a
\* registration and an op of the target dialect
WorklistOps ==
  {ArgmaxNode(<<2, 2>>, ConstantInt(0), ConstantBool(FALSE)),
   ArgmaxNode(<<2, 2>>, ConstantInt(0), NonConstant),
   SqueezeNode("all", <<1, 2>>, NoneOperand),
   MaxDimNode(<<2, 3>>, NonConstant, ConstantBool(TRUE)),
   MaxDimNode(<<2, 3>>, ConstantInt(1), ConstantBool(FALSE)),
   GatherNode(<<2, 3>>, <<2, 2>>, "i32", NonConstant, ConstantBool(FALSE)),
   UnregisteredOp,
   Emit("tosa.const", TensorTy(<<1>>, "f32"), 0)}
  \cup {BroadcastToNode(<<2, 3>>, "f32", ConstantIntList(<<2, 3>>), {}),
        BroadcastToNode(<<2, 3>>, "f32", ConstantIntList(<<4, 2, 3>>), {})}

WorklistBodies == UNION {[1..k -> WorklistOps] : k \in 0..MaxBody}

\* The pattern registered for the op's kind
worklistRewrite(o) ==
  CASE o.kind = "squeeze" -> ConvertAtenSqueezeOp(o)
    [] o.kind = "argmax" -> ConvertAtenArgmaxOp(o)
    [] o.kind = "maxdim" -> ConvertAtenMaxDimOp(o)
    [] o.kind = "gather" -> ConvertAtenGatherOp(o)
    [] o.kind = "broadcast_to" -> ConvertAtenBroadcastToOp(o)

\* The ops of a body that are not of the target dialects
SourceCount(body) ==
  Cardinality({i \in 1..Len(body) : OpName(body[i]) \notin LegalOpNames})

NewWorklist ==
  [ret |-> "none", illegal |-> {}, patterns |-> {}, body |-> <<>>, pending |-> {},
   emitted |-> {}, successes |-> 0, failures |-> 0, signalled |-> FALSE]

InitWorklist ==
  /\ pc = "setup"
  /\ node \in {[kind |-> "func.func", body |-> b] : b \in WorklistBodies}
  /\ res = NewWorklist

WorklistStart ==
  /\ pc = "setup"
  /\ res' = [INSERT_ATENOP_PATTERN(registerAll(res, 1), "broadcast_to")
               EXCEPT !.body = node.body, !.pending = 1..Len(node.body)]
  /\ pc' = "convert"
  /\ UNCHANGED node

WorklistVisit ==
  /\ pc = "convert"
  /\ \E p \in res.pending :
       LET o == res.body[p]
           r == worklistRewrite(o)
           before == SubSeq(res.body, 1, p - 1)
           after == SubSeq(res.body, p + 1, Len(res.body))
           k == Len(r.created)
           moved == {IF q < p THEN q ELSE q + k - 1 : q \in res.pending \ {p}}
       IN  IF ~isLegal(res, o) /\ OpName(o) \in res.patterns /\ r.ret = "success"
           THEN /\ res' = [res EXCEPT
                             !.body = before \o r.created \o after,
                             !.pending = moved \cup (p..(p + k - 1)),
                             !.emitted = @ \cup {OpName(r.created[j]) : j \in 1..k},
                             !.successes = @ + 1]
                /\ pc' = "convert"
           ELSE IF ~isLegal(res, o) /\ isIllegal(res, o)
           THEN /\ res' = [res EXCEPT !.body = node.body, !.pending = {},
                                      !.failures = @ + 1, !.ret = "failure"]
                /\ pc' = "failed"
           ELSE /\ res' = [res EXCEPT !.pending = @ \ {p}]
                /\ pc' = "convert"
  /\ UNCHANGED node

WorklistDone ==
  /\ pc = "convert"
  /\ res.pending = {}
  /\ res' = [res EXCEPT !.ret = "success"]
  /\ pc' = "exit"
  /\ UNCHANGED node

NextWorklist ==
  \/ WorklistStart
  \/ WorklistVisit
  \/ WorklistDone
  \/ SignalPassFailure

SpecWorklist == InitWorklist /\ [][NextWorklist]_vars /\ WF_vars(NextWorklist)

\* A successful legalization takes exactly one op that is not of the target
\* dialects out of the body
SuccessRemovesSource ==
  res'.successes = res.successes + 1
  => SourceCount(res'.body) = SourceCount(res.body) - 1

\* C28: every op a legalizer emits is of the target side (tosa primitives,
\* tensor.cast, arith sign-extension), never of the source dialect, and a
\* successful legalization removes the matched source op, so each success
\* strictly decreases the number of source ops; the driver terminates on
\* every finite body in any visiting order, and a failing op is attempted
\* once and not queued again.
C28_DriverProgress ==
  /\ [](res.emitted \subseteq LegalOpNames)
  /\ [](res.failures <= 1)
  /\ [][SuccessRemovesSource]_vars
  /\ <>(pc = "exit")

\* The driver has exited after two successful legalizations: an argmax has
\* become a tosa.argmax and an arith.extsi, a broadcast_to has been erased.
C28_Witness ==
  /\ pc = "exit"
  /\ ~res.signalled
  /\ Len(node.body) = 2
  /\ OpName(node.body[1]) = "argmax"
  /\ OpName(node.body[2]) = "broadcast_to"
  /\ res.successes = 2
  /\ Len(res.body) = 2
  /\ OpName(res.body[1]) = "tosa.argmax"
  /\ OpName(res.body[2]) = "arith.extsi"
  /\ SourceCount(res.body) = 0


====
